---- MODULE Spec2Model ----
(***************************************************************************)
(* State engine of the account trie: the hexary Merkle-Patricia trie with  *)
(* Short / Duo / Full / Hash / Value nodes (trie/trie.go), its             *)
(* continuation-style insert and delete, the resolver's effect on a Hash   *)
(* placeholder (trie/resolver.go), TrieDbState with its buffered updates,  *)
(* TrieRoot and UnwindTo (core/state/database.go), the history rewind      *)
(* (ethdb/walk.go) and the stateless verifier (core/state/stateless.go).   *)
(*                                                                         *)
(* Keys are scaled down: a key has KeyLen nibbles drawn from               *)
(* 0..NumNibbles-1, followed by the terminator nibble 16, as produced by   *)
(* keybytesToHex.  keccak256 is modelled as an injective function: the     *)
(* digest of a node is its encoded form.                                   *)
(***************************************************************************)
EXTENDS Integers, Sequences, FiniteSets, TLC

\* ------------------------------------------------------------------ bounds
NumNibbles == 3
KeyLen == 2
NumValues == 2
MaxOps == 1
MaxBlock == 3
MaxGen == 2
HashLevel == 1

Nibble == 0 .. (NumNibbles - 1)
Terminator == 16
FullWidth == 17
ChildIdx == 0 .. (FullWidth - 1)

RECURSIVE NibbleSeqs(_)
NibbleSeqs(n) ==
  IF n = 0 THEN {<<>>}
  ELSE {Append(s, x) : s \in NibbleSeqs(n - 1), x \in Nibble}

\* keybytesToHex: the nibbles of the key followed by the terminator
keybytesToHex(k) == Append(k, Terminator)

KeyBytes == NibbleSeqs(KeyLen)
HexLen == KeyLen + 1
\* byte strings held by the tries: v = 0 stands for the empty string
Bytes(v) == [tag |-> "bytes", v |-> v]
NoBytes == Bytes(0)
isEmpty(b) == b.tag = "bytes" /\ b.v = 0
Value == {Bytes(v) : v \in 1 .. NumValues}

\* ------------------------------------------------------------ node model
Nil == [tag |-> "nil"]
NoHash == [tag |-> "nohash"]
valueNode(v) == [tag |-> "value", v |-> v]
hashNode(d) == [tag |-> "hash", d |-> d]

Min2(a, b) == IF a < b THEN a ELSE b

RECURSIVE Pow2(_)
Pow2(n) == IF n = 0 THEN 1 ELSE 2 * Pow2(n - 1)
Bit(m, i) == (m \div Pow2(i)) % 2
MaskBits(m) == {i \in ChildIdx : Bit(m, i) = 1}
SetMin(S) == CHOOSE x \in S : \A y \in S : x <= y
SetMax(S) == CHOOSE x \in S : \A y \in S : y <= x

Tail2(s, from) == SubSeq(s, from + 1, Len(s))

RECURSIVE prefixLen(_, _)
prefixLen(a, b) ==
  IF a = <<>> \/ b = <<>> THEN 0
  ELSE IF a[1] # b[1] THEN 0
  ELSE 1 + prefixLen(Tail(a), Tail(b))

HasPrefix(s, p) == Len(p) <= Len(s) /\ SubSeq(s, 1, Len(p)) = p

\* ------------------------------------------------- compact key encoding
hasTerm(hex) == Len(hex) > 0 /\ hex[Len(hex)] = Terminator

RECURSIVE packNibbles(_)
packNibbles(h) ==
  IF h = <<>> THEN <<>>
  ELSE <<16 * h[1] + h[2]>> \o packNibbles(SubSeq(h, 3, Len(h)))

hexToCompact(hex) ==
  LET term == IF hasTerm(hex) THEN 1 ELSE 0
      h    == IF term = 1 THEN SubSeq(hex, 1, Len(hex) - 1) ELSE hex
      odd  == Len(h) % 2
  IN  IF odd = 1
      THEN <<32 * term + 16 + h[1]>> \o packNibbles(Tail(h))
      ELSE <<32 * term>> \o packNibbles(h)

RECURSIVE unpackBytes(_)
unpackBytes(b) ==
  IF b = <<>> THEN <<>>
  ELSE <<b[1] \div 16, b[1] % 16>> \o unpackBytes(Tail(b))

compactToHex(c) ==
  LET term == (c[1] \div 32) % 2
      odd  == (c[1] \div 16) % 2
      body == unpackBytes(Tail(c))
      h    == IF odd = 1 THEN <<c[1] % 16>> \o body ELSE body
  IN  IF term = 1 THEN Append(h, Terminator) ELSE h

\* number of nibbles of a compact key, the terminator not counted
compactLen(c) ==
  LET h == compactToHex(c) IN IF hasTerm(h) THEN Len(h) - 1 ELSE Len(h)

\* ------------------------------------------------------ node constructors
\* a new Short that is not marked dirty
newCleanShort(hexkey, val, blockNr) ==
  [tag |-> "short", Key |-> hexToCompact(hexkey), Val |-> val,
   dirty |-> FALSE, hash |-> NoHash, t |-> blockNr]

newShort(hexkey, val, blockNr) ==
  [tag |-> "short", Key |-> hexToCompact(hexkey), Val |-> val,
   dirty |-> TRUE, hash |-> NoHash, t |-> blockNr]

newDuo(mask, c1, c2, blockNr) ==
  [tag |-> "duo", mask |-> mask, child1 |-> c1, child2 |-> c2,
   dirty |-> TRUE, hash |-> NoHash, t |-> blockNr]

newFull(children, blockNr) ==
  [tag |-> "full", Children |-> children,
   dirty |-> TRUE, hash |-> NoHash, t |-> blockNr]

NoChildren == [i \in ChildIdx |-> Nil]

childrenIdx(n) == <<SetMin(MaskBits(n.mask)), SetMax(MaskBits(n.mask))>>

updateT(n, blockNr) == [n EXCEPT !.t = blockNr]

\* ----------------------------------------------------------------- hasher
emptyRoot == [tag |-> "emptyRoot"]

DuoChildren(n) ==
  LET ix == childrenIdx(n)
  IN  [i \in ChildIdx |-> IF i = ix[1] THEN n.child1
                          ELSE IF i = ix[2] THEN n.child2 ELSE Nil]

RECURSIVE Enc(_)
\* the encoded form of a node, computed from scratch
Enc(n) ==
  CASE n.tag = "nil"   -> Nil
    [] n.tag = "value" -> n
    [] n.tag = "hash"  -> n.d
    [] n.tag = "short" -> [tag |-> "encShort", Key |-> n.Key, Val |-> Enc(n.Val)]
    [] n.tag = "duo"   ->
         LET ch == DuoChildren(n)
         IN  [tag |-> "encBranch", Children |-> [i \in ChildIdx |-> Enc(ch[i])]]
    [] n.tag = "full"  ->
         [tag |-> "encBranch", Children |-> [i \in ChildIdx |-> Enc(n.Children[i])]]
    [] OTHER -> n

\* what a parent's encoding holds for a child that has been hashed
hashRef(n) ==
  CASE n.tag = "hash" -> n.d
    [] n.tag \in {"short", "duo", "full"} -> n.hash
    [] OTHER -> n

RECURSIVE hashed(_)
\* hasher.hash: a clean node with a cached hash keeps it, a dirty node is
\* re-encoded from the hashes of its children; the result is the node with
\* every cache filled and every dirty flag cleared
hashed(n) ==
  CASE n.tag = "short" ->
         IF ~n.dirty /\ n.hash # NoHash THEN n
         ELSE LET v == hashed(n.Val)
              IN  [n EXCEPT !.Val = v, !.dirty = FALSE,
                     !.hash = [tag |-> "encShort", Key |-> n.Key, Val |-> hashRef(v)]]
    [] n.tag = "duo" ->
         IF ~n.dirty /\ n.hash # NoHash THEN n
         ELSE LET a == hashed(n.child1)
                  b == hashed(n.child2)
                  m == [n EXCEPT !.child1 = a, !.child2 = b]
                  ch == DuoChildren(m)
              IN  [m EXCEPT !.dirty = FALSE,
                     !.hash = [tag |-> "encBranch",
                               Children |-> [i \in ChildIdx |-> hashRef(ch[i])]]]
    [] n.tag = "full" ->
         IF ~n.dirty /\ n.hash # NoHash THEN n
         ELSE LET ch == [i \in ChildIdx |-> hashed(n.Children[i])]
              IN  [n EXCEPT !.Children = ch, !.dirty = FALSE,
                     !.hash = [tag |-> "encBranch",
                               Children |-> [i \in ChildIdx |-> hashRef(ch[i])]]]
    [] OTHER -> n

\* ------------------------------------------------------- continuations
\* The part of a TrieContinuation that insert and delete read and write:
\* the resolution request, the node the resolver attached and the touched list.
\* The fields n and updated travel in the result of insert and delete:
\* n is what the slot of origNode holds afterwards (c.n when updated,
\* the node itself, mutated in place, when not).
NoRequest ==
  [resolveKey |-> <<>>, resolvePos |-> 0, resolveHash |-> NoHash,
   resolved |-> Nil, touched |-> <<>>]

Touch(n, key, pos) ==
  [tag |-> n.tag, Key |-> IF n.tag = "short" THEN n.Key ELSE <<>>,
   key |-> key, pos |-> pos]

Res(done, updated, n, c) == [done |-> done, updated |-> updated, n |-> n, c |-> c]

Panic == [tag |-> "panic"]

RECURSIVE timestampSubTree(_, _)
timestampSubTree(n, blockNr) ==
  CASE n.tag = "short" ->
         IF n.t = 0
         THEN [n EXCEPT !.t = blockNr, !.Val = timestampSubTree(n.Val, blockNr)]
         ELSE n
    [] n.tag = "duo" ->
         IF n.t = 0
         THEN [n EXCEPT !.t = blockNr,
                        !.child1 = timestampSubTree(n.child1, blockNr),
                        !.child2 = timestampSubTree(n.child2, blockNr)]
         ELSE n
    [] n.tag = "full" ->
         IF n.t = 0
         THEN [n EXCEPT !.t = blockNr,
                        !.Children = [i \in ChildIdx |->
                                        timestampSubTree(n.Children[i], blockNr)]]
         ELSE n
    [] OTHER -> n

needResolution(c, key, pos, h) ==
  [c EXCEPT !.resolved = Nil, !.resolveKey = key, !.resolvePos = pos,
            !.resolveHash = h.d]

clearRequest(c) ==
  [c EXCEPT !.resolved = Nil, !.resolveKey = <<>>, !.resolvePos = 0]

\* a continuation that takes every resolved subtree for another request's
staleResolvedFor(c, key, pos) == FALSE

isResolvedFor(c, key, pos) ==
  c.resolved.tag # "nil" /\ key = c.resolveKey /\ pos = c.resolvePos

\* a new child that forgets the rest of the key
newChildWithoutKey(key, pos, value, blockNr) == value

\* the child of a Duo or Full for a leaf or a longer key (insert, new slot)
newChild(key, pos, value, blockNr) ==
  IF Len(key) = pos + 1 THEN value
  ELSE newShort(Tail2(key, pos + 1), value, blockNr)

RECURSIVE insert(_, _, _, _, _, _)
insert(origNode, key, pos, value, c0, blockNr) ==
  LET c == [c0 EXCEPT !.touched = Append(@, Touch(origNode, key, pos))]
  IN
  IF Len(key) = pos THEN
    IF origNode.tag = "value"
    THEN Res(TRUE, origNode.v # value.v,
             IF origNode.v # value.v THEN value ELSE origNode, c)
    ELSE Res(TRUE, TRUE, value,
             [c EXCEPT !.touched = Append(@, Touch(value, key, pos))])
  ELSE
  CASE origNode.tag = "short" ->
      LET n == updateT(origNode, blockNr)
          nKey == compactToHex(n.Key)
          matchlen == prefixLen(Tail2(key, pos), nKey)
      IN  IF matchlen = Len(nKey)
          THEN LET r == insert(n.Val, key, pos + matchlen, value, c, blockNr)
               IN  Res(r.done, r.updated,
                       IF r.updated THEN [n EXCEPT !.Val = r.n, !.dirty = TRUE]
                       ELSE [n EXCEPT !.Val = r.n],
                       r.c)
          ELSE LET c1 == IF Len(nKey) = matchlen + 1 THEN n.Val
                         ELSE newShort(Tail2(nKey, matchlen + 1), n.Val, blockNr)
                   c2 == IF Len(key) = pos + matchlen + 1 THEN value
                         ELSE newShort(Tail2(key, pos + matchlen + 1), value, blockNr)
                   a == nKey[matchlen + 1]
                   b == key[pos + matchlen + 1]
                   branch == IF a < b
                             THEN newDuo(Pow2(a) + Pow2(b), c1, c2, blockNr)
                             ELSE newDuo(Pow2(a) + Pow2(b), c2, c1, blockNr)
               IN  IF matchlen = 0
                   THEN Res(TRUE, TRUE, branch, c)
                   ELSE Res(TRUE, TRUE,
                            [n EXCEPT !.Key = hexToCompact(SubSeq(key, pos + 1, pos + matchlen)),
                                      !.Val = branch, !.dirty = TRUE],
                            \* the touched entry points at n, whose Key has changed
                            [c EXCEPT !.touched[Len(c.touched)].Key =
                               hexToCompact(SubSeq(key, pos + 1, pos + matchlen))])
    [] origNode.tag = "duo" ->
      LET n == updateT(origNode, blockNr)
          ix == childrenIdx(n)
          k == key[pos + 1]
      IN  IF k = ix[1] THEN
            IF n.child1.tag = "nil"
            THEN Res(TRUE, TRUE,
                     [n EXCEPT !.child1 = newChild(key, pos, value, blockNr),
                               !.dirty = TRUE], c)
            ELSE LET r == insert(n.child1, key, pos + 1, value, c, blockNr)
                 IN  Res(r.done, r.updated,
                         IF r.updated THEN [n EXCEPT !.child1 = r.n, !.dirty = TRUE]
                         ELSE [n EXCEPT !.child1 = r.n],
                         r.c)
          ELSE IF k = ix[2] THEN
            IF n.child2.tag = "nil"
            THEN Res(TRUE, TRUE,
                     [n EXCEPT !.child2 = newChild(key, pos, value, blockNr),
                               !.dirty = TRUE], c)
            ELSE LET r == insert(n.child2, key, pos + 1, value, c, blockNr)
                 IN  Res(r.done, r.updated,
                         IF r.updated THEN [n EXCEPT !.child2 = r.n, !.dirty = TRUE]
                         ELSE [n EXCEPT !.child2 = r.n],
                         r.c)
          ELSE
            LET child == newChild(key, pos, value, blockNr)
                newnode == newFull([i \in ChildIdx |->
                                      IF i = k THEN child
                                      ELSE IF i = ix[1] THEN n.child1
                                      ELSE IF i = ix[2] THEN n.child2
                                      ELSE Nil], blockNr)
            IN  Res(TRUE, TRUE, newnode, c)
    [] origNode.tag = "full" ->
      LET n == updateT(origNode, blockNr)
          k == key[pos + 1]
          child == n.Children[k]
      IN  IF child.tag = "nil"
          THEN Res(TRUE, TRUE,
                   [n EXCEPT !.Children[k] = newChild(key, pos, value, blockNr),
                             !.dirty = TRUE], c)
          ELSE LET r == insert(child, key, pos + 1, value, c, blockNr)
               IN  Res(r.done, r.updated,
                       IF r.updated THEN [n EXCEPT !.Children[k] = r.n, !.dirty = TRUE]
                       ELSE [n EXCEPT !.Children[k] = r.n],
                       r.c)
    [] origNode.tag = "hash" ->
      IF ~isResolvedFor(c, key, pos)
      THEN Res(FALSE, FALSE, origNode, needResolution(c, key, pos, origNode))
      ELSE LET rn == timestampSubTree(c.resolved, blockNr)
               r == insert(rn, key, pos, value, clearRequest(c), blockNr)
           IN  Res(r.done, TRUE, r.n, r.c)
    [] OTHER -> Res(TRUE, FALSE, Panic, c)

\* convertToShortNode: the node that replaces a branch left with the single
\* child at index pos.  converted is FALSE when the child is a Hash that
\* still has to be resolved.
\* a conversion that never merges the key of a Short child
convertWithoutMerge(key, keyStart, child, pos, c, blockNr, done) ==
  [done |-> done, converted |-> TRUE, n |-> newShort(<<pos>>, child, blockNr), c |-> c]

convertToShortNode(key, keyStart, child, pos, c, blockNr, done) ==
  LET rkey == Append(SubSeq(key, 1, keyStart), pos)
      needs == pos # 16 /\ child.tag = "hash" /\ ~isResolvedFor(c, rkey, keyStart + 1)
      cnode == IF pos # 16 /\ child.tag = "hash"
               THEN timestampSubTree(c.resolved, blockNr) ELSE child
      c1 == IF pos # 16 /\ child.tag = "hash" THEN clearRequest(c) ELSE c
  IN  IF needs
      THEN [done |-> FALSE, converted |-> FALSE, n |-> Nil,
            c |-> needResolution(c, rkey, keyStart + 1, child)]
      ELSE IF pos # 16 /\ cnode.tag = "short"
      THEN [done |-> done, converted |-> TRUE,
            n |-> newShort(<<pos>> \o compactToHex(cnode.Key), cnode.Val, blockNr),
            c |-> [c1 EXCEPT !.touched = Append(@, Touch(cnode, rkey, keyStart + 1))]]
      ELSE [done |-> done, converted |-> TRUE,
            n |-> newShort(<<pos>>, cnode, blockNr), c |-> c1]

NonNilIdx(children) == {i \in ChildIdx : children[i].tag # "nil"}

RECURSIVE delete(_, _, _, _, _)
delete(origNode, key, keyStart, c0, blockNr) ==
  LET c == [c0 EXCEPT !.touched = Append(@, Touch(origNode, key, keyStart))]
  IN
  CASE origNode.tag = "short" ->
      LET n == updateT(origNode, blockNr)
          nKey == compactToHex(n.Key)
          matchlen == prefixLen(Tail2(key, keyStart), nKey)
      IN  IF matchlen < Len(nKey) THEN Res(TRUE, FALSE, n, c)
          ELSE IF matchlen = Len(key) - keyStart THEN Res(TRUE, TRUE, Nil, c)
          ELSE
            LET r == delete(n.Val, key, keyStart + Len(nKey), c, blockNr)
            IN  IF ~r.updated THEN Res(r.done, FALSE, [n EXCEPT !.Val = r.n], r.c)
                ELSE IF r.n.tag = "nil" THEN Res(TRUE, TRUE, Nil, r.c)
                ELSE IF r.n.tag = "short"
                THEN Res(r.done, TRUE,
                         newShort(nKey \o compactToHex(r.n.Key), r.n.Val, blockNr),
                         [r.c EXCEPT !.touched =
                            Append(@, Touch(r.n, key, keyStart + Len(nKey)))])
                ELSE Res(r.done, TRUE, [n EXCEPT !.Val = r.n, !.dirty = TRUE], r.c)
    [] origNode.tag = "duo" ->
      LET n == updateT(origNode, blockNr)
          ix == childrenIdx(n)
          k == key[keyStart + 1]
      IN  IF k = ix[1] THEN
            LET r == delete(n.child1, key, keyStart + 1, c, blockNr)
                n1 == [n EXCEPT !.child1 = r.n]
            IN  IF ~r.updated /\ ~r.done THEN Res(FALSE, FALSE, n1, r.c)
                ELSE IF r.n.tag # "nil"
                THEN Res(r.done, r.updated,
                         IF r.updated THEN [n1 EXCEPT !.dirty = TRUE] ELSE n1, r.c)
                ELSE IF n.child2.tag = "nil" THEN Res(TRUE, TRUE, Nil, r.c)
                ELSE LET cv == convertToShortNode(key, keyStart, n.child2, ix[2],
                                                  r.c, blockNr, r.done)
                         upd == r.updated \/ cv.converted
                     IN  IF cv.done THEN Res(TRUE, TRUE, cv.n, cv.c)
                         ELSE Res(FALSE, upd,
                                  IF upd THEN [n1 EXCEPT !.dirty = TRUE] ELSE n1, cv.c)
          ELSE IF k = ix[2] THEN
            LET r == delete(n.child2, key, keyStart + 1, c, blockNr)
                n1 == [n EXCEPT !.child2 = r.n]
            IN  IF ~r.updated /\ ~r.done THEN Res(FALSE, FALSE, n1, r.c)
                ELSE IF r.n.tag # "nil"
                THEN Res(r.done, r.updated,
                         IF r.updated THEN [n1 EXCEPT !.dirty = TRUE] ELSE n1, r.c)
                ELSE IF n.child1.tag = "nil" THEN Res(TRUE, TRUE, Nil, r.c)
                ELSE LET cv == convertToShortNode(key, keyStart, n.child1, ix[1],
                                                  r.c, blockNr, r.done)
                         upd == r.updated \/ cv.converted
                     IN  IF cv.done THEN Res(TRUE, TRUE, cv.n, cv.c)
                         ELSE Res(FALSE, upd,
                                  IF upd THEN [n1 EXCEPT !.dirty = TRUE] ELSE n1, cv.c)
          ELSE Res(TRUE, FALSE, n, c)
    [] origNode.tag = "full" ->
      LET n == updateT(origNode, blockNr)
          k == key[keyStart + 1]
          r == delete(n.Children[k], key, keyStart + 1, c, blockNr)
          n1 == [n EXCEPT !.Children[k] = r.n]
          left == NonNilIdx(n1.Children)
          count == Cardinality(left)
      IN  IF ~r.updated /\ ~r.done THEN Res(FALSE, FALSE, n1, r.c)
          ELSE IF count = 0 THEN Res(TRUE, TRUE, Nil, r.c)
          ELSE IF count = 1
          THEN LET pos1 == SetMin(left)
                   cv == convertToShortNode(key, keyStart, n1.Children[pos1], pos1,
                                            r.c, blockNr, r.done)
                   upd == r.updated \/ cv.converted
               IN  IF cv.done THEN Res(TRUE, TRUE, cv.n, cv.c)
                   ELSE Res(FALSE, upd,
                            IF upd THEN [n1 EXCEPT !.dirty = TRUE] ELSE n1, cv.c)
          ELSE IF count = 2
          THEN LET pos1 == SetMin(left)
                   pos2 == SetMax(left)
               IN  Res(r.done, TRUE,
                       newDuo(Pow2(pos1) + Pow2(pos2),
                              n1.Children[pos1], n1.Children[pos2], blockNr),
                       r.c)
          ELSE Res(r.done, r.updated,
                   IF r.updated THEN [n1 EXCEPT !.dirty = TRUE] ELSE n1, r.c)
    [] origNode.tag = "value" -> Res(TRUE, TRUE, Nil, c)
    [] origNode.tag = "nil" -> Res(TRUE, FALSE, Nil, c)
    [] origNode.tag = "hash" ->
      IF ~isResolvedFor(c, key, keyStart)
      THEN Res(FALSE, FALSE, origNode, needResolution(c, key, keyStart, origNode))
      ELSE LET rn == timestampSubTree(c.resolved, blockNr)
               r == delete(rn, key, keyStart, clearRequest(c), blockNr)
           IN  Res(r.done, TRUE, r.n, r.c)
    [] OTHER -> Res(TRUE, FALSE, Panic, c)

\* -------------------------------------------------------------- resolver
\* The subtree a successful resolver pass attaches for the Hash with digest e
\* at hex path `path`: the nodes whose parent lies on the path of one of the
\* resolve keys are rebuilt, every other child stays a Hash placeholder.
onResolvingPath(cpath, hexes) ==
  \E R \in hexes : HasPrefix(R, SubSeq(cpath, 1, Len(cpath) - 1))

RECURSIVE expand(_, _, _)
\* expandChild with the test of finishPreviousKey taken one level lower
\* (level < rhPrefixLen)
expandOnPathOnly(e, cpath, hexes) ==
  IF e.tag \in {"nil", "value"} THEN e
  ELSE IF \E R \in hexes : HasPrefix(R, cpath) THEN expand(e, cpath, hexes)
  ELSE hashNode(e)

expandChild(e, cpath, hexes) ==
  IF e.tag \in {"nil", "value"} THEN e
  ELSE IF onResolvingPath(cpath, hexes) THEN expand(e, cpath, hexes)
  ELSE hashNode(e)

expand(e, path, hexes) ==
  CASE e.tag = "encShort" ->
         [tag |-> "short", Key |-> e.Key,
          Val |-> expandChild(e.Val, path \o compactToHex(e.Key), hexes),
          dirty |-> TRUE, hash |-> NoHash, t |-> 0]
    [] e.tag = "encBranch" ->
         LET ch == [i \in ChildIdx |-> expandChild(e.Children[i], Append(path, i), hexes)]
             set == NonNilIdx(ch)
         IN  IF Cardinality(set) = 2
             THEN newDuo(Pow2(SetMin(set)) + Pow2(SetMax(set)),
                         ch[SetMin(set)], ch[SetMax(set)], 0)
             ELSE newFull(ch, 0)
    [] OTHER -> hashNode(e)

\* finishPreviousKey for the continuation c served as a walk start
resolveFor(c, hexes) ==
  [c EXCEPT !.resolved =
     expand(c.resolveHash, SubSeq(c.resolveKey, 1, c.resolvePos), hexes)]

\* ------------------------------------------------------- hash side-table
emptyHash == [tag |-> "emptyHash"]

RECURSIVE calcIndex(_, _)
calcIndex(key, pos) ==
  IF pos = 0 THEN 0 ELSE calcIndex(key, pos - 1) * 16 + key[pos]

RECURSIVE extendIndex(_, _, _)
extendIndex(index, hexKey, n) ==
  IF n = 0 THEN index ELSE extendIndex(index, hexKey, n - 1) * 16 + hexKey[n]

PutHash(tbl, idx, h) ==
  [i \in (DOMAIN tbl) \cup {idx} |-> IF i = idx THEN h ELSE tbl[i]]

emptyShortHash(tbl, nKey, level, index) ==
  IF compactLen(nKey) + level < HashLevel THEN tbl
  ELSE PutHash(tbl, extendIndex(index, compactToHex(nKey), HashLevel - level), emptyHash)

emptyFullHash(tbl, level, index) ==
  IF level # HashLevel THEN tbl ELSE PutHash(tbl, index, emptyHash)

\* a touch that leaves the side-table as it is
touchNothing(tbl, tch, accounts) == tbl

\* touch: blank the side-table entry that covers a touched node
touch(tbl, tch, accounts) ==
  IF tch.tag = "nil" \/ tch.pos > HashLevel \/ ~accounts THEN tbl
  ELSE CASE tch.tag = "short" ->
              emptyShortHash(tbl, tch.Key, tch.pos, calcIndex(tch.key, tch.pos))
         [] tch.tag \in {"duo", "full"} ->
              emptyFullHash(tbl, tch.pos, calcIndex(tch.key, tch.pos))
         [] OTHER -> tbl

RECURSIVE touchAll(_, _, _)
touchAll(tbl, touched, accounts) ==
  IF touched = <<>> THEN tbl
  ELSE touchAll(touch(tbl, Head(touched), accounts), Tail(touched), accounts)

RECURSIVE saveHashes(_, _, _, _, _)
RECURSIVE saveChildren(_, _, _, _, _, _)
saveChildren(tbl, children, i, level, index, blockNr) ==
  IF i > 16 THEN tbl
  ELSE saveChildren(
         IF children[i].tag # "nil"
         THEN saveHashes(tbl, children[i], level + 1, index * 16 + i, blockNr)
         ELSE tbl,
         children, i + 1, level, index, blockNr)

saveHashes(tbl, n, level, index, blockNr) ==
  CASE n.tag = "short" ->
         IF n.t < blockNr \/ level > HashLevel THEN tbl
         ELSE IF compactLen(n.Key) + level < HashLevel
         THEN saveHashes(tbl, n.Val, level + compactLen(n.Key),
                         extendIndex(index, compactToHex(n.Key), compactLen(n.Key)),
                         blockNr)
         ELSE PutHash(tbl, extendIndex(index, compactToHex(n.Key), HashLevel - level),
                      n.hash)
    [] n.tag \in {"duo", "full"} ->
         IF n.t < blockNr \/ level > HashLevel THEN tbl
         ELSE IF level = HashLevel THEN PutHash(tbl, index, n.hash)
         ELSE saveChildren(tbl, IF n.tag = "duo" THEN DuoChildren(n) ELSE n.Children,
                           0, level, index, blockNr)
    [] n.tag = "hash" ->
         IF level = HashLevel THEN PutHash(tbl, index, n.d) ELSE tbl
    [] OTHER -> tbl

\* --------------------------------------------------------- trie methods
UpdateAction(key, value) ==
  [action |-> IF ~isEmpty(value) THEN "insert" ELSE "delete",
   key |-> keybytesToHex(key), value |-> valueNode(value), c |-> NoRequest]

DeleteAction(key) ==
  [action |-> "delete", key |-> keybytesToHex(key), value |-> valueNode(NoBytes),
   c |-> NoRequest]

\* RunWithDb: one run of a continuation against the trie with root `root`;
\* tbl is the hash side-table of db, written only when withDb and accounts.
RunWithDb(tc, root, tbl, withDb, accounts, blockNr) ==
  LET after(r) ==
        [done |-> r.done,
         updated |-> r.updated,
         root |-> r.n,
         tbl |-> IF r.updated /\ withDb THEN touchAll(tbl, r.c.touched, accounts)
                 ELSE tbl,
         tc |-> [tc EXCEPT !.c = IF r.updated THEN [r.c EXCEPT !.touched = <<>>]
                                 ELSE r.c]]
  IN  after(IF tc.action = "insert"
            THEN IF root.tag = "nil"
                 THEN Res(TRUE, TRUE, newShort(tc.key, tc.value, blockNr), tc.c)
                 ELSE insert(root, tc.key, 0, tc.value, tc.c, blockNr)
            ELSE delete(root, tc.key, 0, tc.c, blockNr))

\* hashRoot: the root hash, and the trie with the hash caches filled
hashRoot(root) ==
  IF root.tag = "nil" THEN [hash |-> emptyRoot, root |-> root]
  ELSE LET h == hashed(root) IN [hash |-> hashRef(h), root |-> h]

SaveHashes(tbl, root, accounts, blockNr) ==
  IF accounts THEN saveHashes(tbl, root, 0, 0, blockNr) ELSE tbl

RECURSIVE tryGet1(_, _, _, _)
\* the value found for key below origNode, and origNode with the timestamps
\* of the visited nodes updated; gotValue is FALSE when a Hash is reached
tryGet1(origNode, key, pos, blockNr) ==
  CASE origNode.tag = "nil" -> [value |-> NoBytes, gotValue |-> TRUE, n |-> origNode]
    [] origNode.tag = "value" -> [value |-> origNode.v, gotValue |-> TRUE, n |-> origNode]
    [] origNode.tag = "short" ->
         LET n == updateT(origNode, blockNr)
             nKey == compactToHex(n.Key)
         IN  IF Len(key) - pos < Len(nKey) \/ nKey # SubSeq(key, pos + 1, pos + Len(nKey))
             THEN [value |-> NoBytes, gotValue |-> TRUE, n |-> n]
             ELSE LET r == tryGet1(n.Val, key, pos + Len(nKey), blockNr)
                  IN  [r EXCEPT !.n = [n EXCEPT !.Val = r.n]]
    [] origNode.tag = "duo" ->
         LET n == updateT(origNode, blockNr)
             ix == childrenIdx(n)
         IN  IF key[pos + 1] = ix[1]
             THEN LET r == tryGet1(n.child1, key, pos + 1, blockNr)
                  IN  [r EXCEPT !.n = [n EXCEPT !.child1 = r.n]]
             ELSE IF key[pos + 1] = ix[2]
             THEN LET r == tryGet1(n.child2, key, pos + 1, blockNr)
                  IN  [r EXCEPT !.n = [n EXCEPT !.child2 = r.n]]
             ELSE [value |-> NoBytes, gotValue |-> TRUE, n |-> n]
    [] origNode.tag = "full" ->
         LET n == updateT(origNode, blockNr)
             r == tryGet1(n.Children[key[pos + 1]], key, pos + 1, blockNr)
         IN  [r EXCEPT !.n = [n EXCEPT !.Children[key[pos + 1]] = r.n]]
    [] OTHER -> [value |-> NoBytes, gotValue |-> FALSE, n |-> origNode]

\* ------------------------------------------------------------ unloading
RECURSIVE tod(_, _)
\* the oldest timestamp in the subtree of n
tod(n, def) ==
  CASE n.tag = "short" -> Min2(n.t, tod(n.Val, def))
    [] n.tag = "duo" -> Min2(n.t, Min2(tod(n.child1, def), tod(n.child2, def)))
    [] n.tag = "full" ->
         LET S == {n.t} \cup {tod(n.Children[i], def) : i \in NonNilIdx(n.Children)}
         IN  SetMin(S)
    [] OTHER -> def

\* the byte strings Bytes(1) .. Bytes(NumValues) stand for 32-byte words,
\* ShortValue for a string of one byte below 0x80; what is no byte string of
\* the model (an account encoding) is longer than a word
ShortValue == Bytes(NumValues + 1)
byteLen(b) ==
  IF b.tag # "bytes" THEN 64 ELSE IF b.v = 0 THEN 0 ELSE IF b.v > NumValues THEN 1 ELSE 32

\* the length of the length-prefix form of a string of len bytes (single: one
\* byte below 0x80) and of a list with a payload of len bytes
stringLen(len, single) == IF single THEN 1 ELSE IF len < 56 THEN 1 + len ELSE 2 + len
listLen(len) == IF len < 56 THEN 1 + len ELSE 2 + len

RECURSIVE SumLen(_, _)
SumLen(f, I) ==
  IF I = {} THEN 0
  ELSE LET i == CHOOSE x \in I : TRUE IN f[i] + SumLen(f, I \ {i})

RECURSIVE encodedLen(_)
\* the number of bytes of the encoded form of a node, a child shorter than 32
\* bytes held inline and any other child as its 32-byte hash
encodedLen(n) ==
  LET refLen(c) ==
        IF c.tag \in {"short", "duo", "full"}
        THEN IF encodedLen(c) < 32 THEN encodedLen(c) ELSE 33
        ELSE encodedLen(c)
  IN  CASE n.tag = "nil" -> 1
        [] n.tag = "value" -> stringLen(byteLen(n.v), byteLen(n.v) = 1)
        [] n.tag = "hash" -> 33
        [] n.tag = "short" ->
             listLen(stringLen(Len(n.Key), Len(n.Key) = 1 /\ n.Key[1] < 128)
                       + refLen(n.Val))
        [] n.tag = "duo" ->
             listLen(SumLen([i \in ChildIdx |-> refLen(DuoChildren(n)[i])], ChildIdx))
        [] n.tag = "full" ->
             listLen(SumLen([i \in ChildIdx |-> refLen(n.Children[i])], ChildIdx))
        [] OTHER -> 33

\* an embedded node: one held inline in the encoding of its parent
embedded(n, isRoot) ==
  n.tag \in {"short", "duo", "full"} /\ ~isRoot /\ encodedLen(n) < 32

\* what h.hash(n, isRoot, ...) returns: 32 when n has a hash of its own
hashLen(n, isRoot) == IF embedded(n, isRoot) THEN encodedLen(n) ELSE 32

\* the nodes older than gen that unloadOlderThan leaves in place: a dirty
\* Short or Duo whose h.hash is shorter than 32 bytes.  A clean node is
\* answered with its cached hash, and in the Full case the return of
\* (nil, false) stands after the return of the hash, inside the same branch.
cannotUnload(n, isRoot) ==
  n.tag \in {"short", "duo"} /\ n.dirty /\ hashLen(n, isRoot) # 32

RECURSIVE unloadOlderThan(_, _, _)
\* the node left in the slot of n: a Hash when n is older than gen
unloadOlderThan(n, gen, isRoot) ==
  CASE n.tag = "short" ->
         IF n.t < gen
         THEN IF cannotUnload(n, isRoot) THEN hashed(n) ELSE hashNode(hashed(n).hash)
         ELSE IF tod(n, n.t) < gen
         THEN [n EXCEPT !.Val = unloadOlderThan(n.Val, gen, FALSE)]
         ELSE n
    [] n.tag = "duo" ->
         IF n.t < gen
         THEN IF cannotUnload(n, isRoot) THEN hashed(n) ELSE hashNode(hashed(n).hash)
         ELSE IF tod(n, n.t) < gen
         THEN [n EXCEPT !.child1 = unloadOlderThan(n.child1, gen, FALSE),
                        !.child2 = unloadOlderThan(n.child2, gen, FALSE)]
         ELSE n
    [] n.tag = "full" ->
         IF n.t < gen
         THEN IF cannotUnload(n, isRoot) THEN hashed(n) ELSE hashNode(hashed(n).hash)
         ELSE [n EXCEPT !.Children =
                 [i \in ChildIdx |-> unloadOlderThan(n.Children[i], gen, FALSE)]]
    [] OTHER -> n

\* ------------------------------------------------- driving a continuation
MaxPasses == HexLen + 2

\* the placeholder a continuation that is not done asks the resolver for: the
\* hex path of the Hash in the trie and its digest
requestOf(c) ==
  [path |-> SubSeq(c.resolveKey, 1, c.resolvePos), hash |-> c.resolveHash]

RECURSIVE runToEnd(_, _, _, _, _, _, _)
\* the loop of TryUpdate and TryDelete: run, and while the continuation is not
\* done resolve what it asks for and run again.  The resolver pass number
\* failAt returns an error (a failed read, a wrong hash).
runToEnd(tc, root, tbl, accounts, blockNr, pass, failAt) ==
  LET asked(r) == <<requestOf(r.tc.c)>>
      after(r) ==
        IF r.done
        THEN [err |-> FALSE, stuck |-> FALSE, root |-> r.root, tbl |-> r.tbl,
              passes |-> pass, requests |-> <<>>]
        ELSE IF pass + 1 = failAt
        THEN [err |-> TRUE, stuck |-> FALSE, root |-> r.root, tbl |-> r.tbl,
              passes |-> pass + 1, requests |-> asked(r)]
        ELSE IF pass >= MaxPasses
        THEN [err |-> TRUE, stuck |-> TRUE, root |-> r.root, tbl |-> r.tbl,
              passes |-> pass, requests |-> asked(r)]
        ELSE LET rest == runToEnd([r.tc EXCEPT !.c = resolveFor(r.tc.c, {r.tc.c.resolveKey})],
                                  r.root, r.tbl, accounts, blockNr, pass + 1, failAt)
             IN  [rest EXCEPT !.requests = asked(r) \o @]
  IN  after(RunWithDb(tc, root, tbl, TRUE, accounts, blockNr))

TryUpdate(root, tbl, accounts, key, value, blockNr, failAt) ==
  LET saved(r, h) ==
        [r EXCEPT !.root = h.root,
                  !.tbl = SaveHashes(r.tbl, h.root, accounts, blockNr)]
      after(r) == IF r.err THEN r ELSE saved(r, hashRoot(r.root))
  IN  after(runToEnd(UpdateAction(key, value), root, tbl, accounts, blockNr, 0, failAt))

TryDelete(root, tbl, accounts, key, blockNr, failAt) ==
  runToEnd(DeleteAction(key), root, tbl, accounts, blockNr, 0, failAt)

\* TryGet: the value in the trie, or the row of the bucket when a Hash is met
TryGet(root, rows, key, blockNr) ==
  LET r == tryGet1(root, keybytesToHex(key), 0, blockNr)
  IN  [value |-> IF r.gotValue THEN r.value
                 ELSE IF key \in DOMAIN rows THEN rows[key] ELSE NoBytes,
       gotValue |-> r.gotValue,
       root |-> r.n]

UnloadOlderThan(root, gen) == unloadOlderThan(root, gen, TRUE)

\* ------------------------------------------------------ shape predicates
RECURSIVE NoShortShort(_)
NoShortShort(n) ==
  CASE n.tag = "short" -> n.Val.tag # "short" /\ NoShortShort(n.Val)
    [] n.tag = "duo" -> NoShortShort(n.child1) /\ NoShortShort(n.child2)
    [] n.tag = "full" -> \A i \in ChildIdx : NoShortShort(n.Children[i])
    [] OTHER -> TRUE

RECURSIVE FullsHaveThree(_)
FullsHaveThree(n) ==
  CASE n.tag = "short" -> FullsHaveThree(n.Val)
    [] n.tag = "duo" -> FullsHaveThree(n.child1) /\ FullsHaveThree(n.child2)
    [] n.tag = "full" -> /\ Cardinality(NonNilIdx(n.Children)) >= 3
                         /\ \A i \in ChildIdx : FullsHaveThree(n.Children[i])
    [] OTHER -> TRUE

RECURSIVE HasHash(_)
HasHash(n) ==
  CASE n.tag = "hash" -> TRUE
    [] n.tag = "short" -> HasHash(n.Val)
    [] n.tag = "duo" -> HasHash(n.child1) \/ HasHash(n.child2)
    [] n.tag = "full" -> \E i \in ChildIdx : HasHash(n.Children[i])
    [] OTHER -> FALSE

RECURSIVE Shape(_)
\* the node structure without timestamps, dirty flags and cached hashes
Shape(n) ==
  CASE n.tag = "short" -> [tag |-> "short", Key |-> n.Key, Val |-> Shape(n.Val)]
    [] n.tag = "duo" -> [tag |-> "duo", mask |-> n.mask,
                         child1 |-> Shape(n.child1), child2 |-> Shape(n.child2)]
    [] n.tag = "full" -> [tag |-> "full",
                          Children |-> [i \in ChildIdx |-> Shape(n.Children[i])]]
    [] OTHER -> n

RECURSIVE contentOf(_, _)
\* the key/value pairs below the node with encoding e at hex path `path`
contentOf(e, path) ==
  CASE e.tag = "value" -> {<<path, e.v>>}
    [] e.tag = "encShort" -> contentOf(e.Val, path \o compactToHex(e.Key))
    [] e.tag = "encBranch" ->
         UNION {contentOf(e.Children[i], Append(path, i)) : i \in ChildIdx}
    [] OTHER -> {}

RECURSIVE SeqLess(_, _)
SeqLess(a, b) ==
  IF a = <<>> THEN b # <<>>
  ELSE IF b = <<>> THEN FALSE
  ELSE IF Head(a) # Head(b) THEN Head(a) < Head(b)
  ELSE SeqLess(Tail(a), Tail(b))

RECURSIVE buildFrom(_, _, _)
\* the trie that holds `pairs`, built by inserting them in key order
buildFrom(pairs, root, blockNr) ==
  IF pairs = {} THEN root
  ELSE LET p == CHOOSE x \in pairs : \A y \in pairs : y = x \/ SeqLess(x[1], y[1])
           tc == [action |-> "insert", key |-> p[1], value |-> valueNode(p[2]),
                  c |-> NoRequest]
       IN  buildFrom(pairs \ {p},
                     RunWithDb(tc, root, <<>>, FALSE, FALSE, blockNr).root, blockNr)

\* ============================================================== accounts
NumAddr == 2
NumKeys == 1
MaxNonce == 1
MaxWrites == 2

Address == 1 .. NumAddr
\* accounts that are in every state and that no block writes
Bystanders == {NumAddr + 1, NumAddr + 2}
StorageKey == 1 .. NumKeys

RECURSIVE Pow(_, _)
Pow(b, n) == IF n = 0 THEN 1 ELSE b * Pow(b, n - 1)

RECURSIVE digits(_, _)
digits(x, n) ==
  IF n = 0 THEN <<>> ELSE Append(digits(x \div NumNibbles, n - 1), x % NumNibbles)

\* keccak256 of an address and of a storage key: injective scramblings
HashAddress(address) == digits((7 * address) % Pow(NumNibbles, KeyLen), KeyLen)
HashKey(key) == digits((5 * key + 1) % Pow(NumNibbles, KeyLen), KeyLen)

ZeroHash == [tag |-> "zeroHash"]
emptyCodeHash == [tag |-> "emptyCodeHash"]
NilCodeHash == [tag |-> "nilCodeHash"]
NilBalance == 0 - 1

Account(nonce, balance, root, codeHash) ==
  [tag |-> "account", Nonce |-> nonce, Balance |-> balance, Root |-> root,
   CodeHash |-> codeHash]

\* a nil *Account, and the zero Account of a state object that did not exist
NilAccount == [tag |-> "nilAccount"]
NoOriginal == Account(0, NilBalance, ZeroHash, NilCodeHash)

accountsEqual(a1, a2) ==
  /\ a1.Nonce = a2.Nonce
  /\ IF a1.Balance = NilBalance THEN a2.Balance = NilBalance
     ELSE a2.Balance # NilBalance /\ a1.Balance = a2.Balance
  /\ a1.Root = a2.Root
  /\ IF a1.CodeHash = NilCodeHash THEN a2.CodeHash = NilCodeHash
     ELSE a2.CodeHash # NilCodeHash /\ a1.CodeHash = a2.CodeHash

\* encodings of an account: len is the length class of the byte string
\* (1: the single byte 0xc0, 3: nonce and balance, 70: all four fields)
Encoding(len, nonce, balance, root, codeHash) ==
  [tag |-> "enc", len |-> len, Nonce |-> nonce, Balance |-> balance, Root |-> root,
   CodeHash |-> codeHash]

\* rlp.EncodeToBytes(account): a nil balance is written as zero
rlpAccount(a) ==
  Encoding(70, a.Nonce, IF a.Balance = NilBalance THEN 0 ELSE a.Balance, a.Root,
           a.CodeHash)

accountToEncoding(a) ==
  IF (a.CodeHash = NilCodeHash \/ a.CodeHash = emptyCodeHash)
       /\ (a.Root = emptyRoot \/ a.Root = ZeroHash)
  THEN IF (a.Balance = NilBalance \/ a.Balance = 0) /\ a.Nonce = 0
       THEN Encoding(1, 0, 0, ZeroHash, NilCodeHash)
       ELSE Encoding(3, a.Nonce, IF a.Balance = NilBalance THEN 0 ELSE a.Balance,
                     ZeroHash, NilCodeHash)
  ELSE Encoding(70, a.Nonce, IF a.Balance = NilBalance THEN 0 ELSE a.Balance,
                IF a.Root = ZeroHash THEN emptyRoot ELSE a.Root,
                IF a.CodeHash = NilCodeHash THEN emptyCodeHash ELSE a.CodeHash)

encodingToAccount(enc) ==
  IF enc.tag # "enc" THEN NilAccount
  ELSE IF enc.len = 1 THEN Account(0, 0, emptyRoot, emptyCodeHash)
  ELSE IF enc.len < 60 THEN Account(enc.Nonce, enc.Balance, emptyRoot, emptyCodeHash)
  ELSE Account(enc.Nonce, enc.Balance, enc.Root, enc.CodeHash)

\* ------------------------------------------------------- backing store
Get(rows, key) == IF key \in DOMAIN rows THEN rows[key] ELSE NoBytes
Put(rows, key, value) ==
  [k \in (DOMAIN rows) \cup {key} |-> IF k = key THEN value ELSE rows[k]]
Delete(rows, key) == [k \in (DOMAIN rows) \ {key} |-> rows[k]]

\* the history log: <<key, block>> -> the value before the block
PutS(hist, key, value, timestamp) == Put(hist, <<key, timestamp>>, value)

GetAsOf(rows, hist, key, timestamp) ==
  LET T == {e[2] : e \in {x \in DOMAIN hist : x[1] = key /\ x[2] >= timestamp}}
  IN  IF T = {} THEN Get(rows, key) ELSE hist[<<key, SetMin(T)>>]

DeleteTimestamp(hist, timestamp) ==
  [e \in {x \in DOMAIN hist : x[2] # timestamp} |-> hist[e]]

\* a loop that ends after the first block
DeleteLastTimestamp(hist, from, to) == DeleteTimestamp(hist, from)

RECURSIVE DeleteTimestamps(_, _, _)
\* the loop of UnwindTo over the blocks from..to+1
DeleteTimestamps(hist, from, to) ==
  IF from <= to THEN hist
  ELSE DeleteTimestamps(DeleteTimestamp(hist, from), from - 1, to)

\* a rewind that reports no key
rewindNothing(rows, hist, src, dst) == <<>>

\* rewindData: the keys of a bucket changed in the blocks dst+1..src, each with
\* its value as of block dst+1
rewindData(rows, hist, src, dst) ==
  LET keys == {e[1] : e \in {x \in DOMAIN hist : dst < x[2] /\ x[2] <= src}}
  IN  [k \in keys |-> GetAsOf(rows, hist, k, dst + 1)]

\* ------------------------------------------------- the rewind, by calls
\* The index PutS keeps in SuffixBucket: one row for each block and history
\* bucket that PutS logged a key for, holding those keys; the rows are in the
\* order of their index key (the encoded timestamp, then the bucket name).
HistoryBuckets == <<"hAT", "hST">>

\* the bytes of a key of a history bucket: the address hash, or the address
\* followed by the key hash
itemBytes(bucket, key) == IF bucket = "hST" THEN <<key[1]>> \o key[2] ELSE key

RECURSIVE keysOf(_, _)
keysOf(bucket, S) ==
  IF S = {} THEN <<>>
  ELSE LET k == CHOOSE x \in S :
                  \A y \in S : y = x \/ SeqLess(itemBytes(bucket, x), itemBytes(bucket, y))
       IN  <<k>> \o keysOf(bucket, S \ {k})

RECURSIVE suffixRows(_, _, _, _)
suffixRows(hat, hst, timestamp, maxTimestamp) ==
  IF timestamp > maxTimestamp THEN <<>>
  ELSE LET row(bucket, hist) ==
             LET K == {e[1] : e \in {x \in DOMAIN hist : x[2] = timestamp}}
             IN  IF K = {} THEN <<>>
                 ELSE <<[timestamp |-> timestamp, bucket |-> bucket, keys |-> keysOf(bucket, K)]>>
       IN  row("hAT", hat) \o row("hST", hst)
             \o suffixRows(hat, hst, timestamp + 1, maxTimestamp)

\* an insertion into the tree that keeps an item already there
InsertAgain(tree, key) == Append(tree, key)

\* llrb.ReplaceOrInsert: the items of the tree, one for each key
ReplaceOrInsert(tree, key) ==
  IF \E i \in 1 .. Len(tree) : tree[i] = key THEN tree ELSE Append(tree, key)

RECURSIVE insertKeys(_, _, _)
\* the loop over the keys of one index row
insertKeys(tree, keys, ki) ==
  IF ki > Len(keys) THEN tree
  ELSE insertKeys(ReplaceOrInsert(tree, keys[ki]), keys, ki + 1)

RECURSIVE collectKeys(_, _, _, _)
\* the callback of db.Walk over the index from row i: it stops at the first
\* row of a block after timestampSrc
collectKeys(rows, i, timestampSrc, m) ==
  IF i > Len(rows) THEN m
  ELSE IF rows[i].timestamp > timestampSrc THEN m
  ELSE LET keycount == Len(rows[i].keys)
           bucket == rows[i].bucket
           tree == IF bucket \in DOMAIN m THEN m[bucket] ELSE <<>>
           m1 == IF keycount > 0
                 THEN [b \in (DOMAIN m) \cup {bucket} |->
                          IF b = bucket THEN insertKeys(tree, rows[i].keys, 1) ELSE m[b]]
                 ELSE m
       IN  collectKeys(rows, i + 1, timestampSrc, m1)

\* db.Walk(SuffixBucket, suffixDst, 0, ...): the first row at or after the
\* start key
seekRow(rows, timestamp) ==
  LET I == {i \in 1 .. Len(rows) : rows[i].timestamp >= timestamp}
  IN  IF I = {} THEN Len(rows) + 1 ELSE SetMin(I)

RECURSIVE ascendFrom(_, _, _)
\* t.AscendGreaterOrEqual1(min, ...): the items I of the tree in key order
ascendFrom(bucket, tree, I) ==
  IF I = {} THEN <<>>
  ELSE LET i == CHOOSE x \in I : \A y \in I :
                  \/ y = x
                  \/ SeqLess(itemBytes(bucket, tree[x]), itemBytes(bucket, tree[y]))
                  \/ (tree[x] = tree[y] /\ x < y)
       IN  <<tree[i]>> \o ascendFrom(bucket, tree, I \ {i})

RECURSIVE dfCalls(_, _, _)
\* the loop `for bucketStr, t := range m` in the order `order` of the
\* buckets: the calls of df, each <<bucket, key>>
dfCalls(m, order, i) ==
  IF i > Len(order) THEN <<>>
  ELSE LET tree == m[order[i]]
       IN  IF tree = <<>> THEN <<>>
           ELSE [j \in 1 .. Len(tree) |->
                   <<order[i], ascendFrom(order[i], tree, 1 .. Len(tree))[j]>>]
                  \o dfCalls(m, order, i + 1)

\* the buckets rewindData collected keys for, and the orders in which the
\* range over the map may visit them
rewindBuckets(rows, timestampSrc, timestampDst) ==
  DOMAIN collectKeys(rows, seekRow(rows, timestampDst + 1), timestampSrc, <<>>)

bucketOrders(B) ==
  {o \in [1 .. Cardinality(B) -> B] : \A i, j \in DOMAIN o : i # j => o[i] # o[j]}

\* rewindData as the sequence of its calls of df
rewindCalls(rows, timestampSrc, timestampDst, order) ==
  dfCalls(collectKeys(rows, seekRow(rows, timestampDst + 1), timestampSrc, <<>>),
          order, 1)

\* --------------------------------------------------------------- writers
\* the buffers of TrieDbState the trie writer fills
TrieStateWriter_UpdateAccountData(b, address, account) ==
  [b EXCEPT !.accountUpdates = Put(@, HashAddress(address), account)]

TrieStateWriter_DeleteAccount(b, address) ==
  [b EXCEPT !.accountUpdates = Put(@, HashAddress(address), NilAccount),
            !.deleted = @ \cup {HashAddress(address)}]

\* bytes.TrimLeft of the 32-byte value: zero becomes the empty string
TrimLeft(value) == Bytes(value)

TrieStateWriter_WriteAccountStorage(b, address, key, value) ==
  LET m == IF address \in DOMAIN b.storageUpdates THEN b.storageUpdates[address]
           ELSE <<>>
  IN  [b EXCEPT !.storageUpdates = Put(@, address, Put(m, HashKey(key), TrimLeft(value)))]

\* a db writer that logs the original of every account it is given
DbStateWriter_LogEveryAccount(d, address, original, account, blockNr) ==
  [d EXCEPT !.AT = Put(@, HashAddress(address), accountToEncoding(account)),
            !.hAT = PutS(@, HashAddress(address),
                         IF original.Balance = NilBalance THEN NoBytes
                         ELSE accountToEncoding(original),
                         blockNr)]

\* the buckets the db writer fills, and the noHistory flag of its TrieDbState:
\* d = [AT, ST, hAT, hST, noHistory]
DbStateWriter_UpdateAccountData(d, address, original, account, blockNr) ==
  LET d1 == [d EXCEPT !.AT = Put(@, HashAddress(address), accountToEncoding(account))]
  IN  IF d.noHistory THEN d1
      ELSE IF accountsEqual(original, account) THEN d1
      ELSE [d1 EXCEPT !.hAT =
              PutS(@, HashAddress(address),
                   IF original.Balance = NilBalance THEN NoBytes
                   ELSE accountToEncoding(original),
                   blockNr)]

\* a db writer that logs the empty string for every account it deletes
DbStateWriter_DeleteWithMarker(d, address, original, blockNr) ==
  [d EXCEPT !.AT = Delete(@, HashAddress(address)),
            !.hAT = PutS(@, HashAddress(address), NoBytes, blockNr)]

DbStateWriter_DeleteAccount(d, address, original, blockNr) ==
  LET d1 == [d EXCEPT !.AT = Delete(@, HashAddress(address))]
  IN  IF d.noHistory THEN d1
      ELSE [d1 EXCEPT !.hAT =
              PutS(@, HashAddress(address),
                   IF original.Balance = NilBalance THEN NoBytes
                   ELSE accountToEncoding(original),
                   blockNr)]

DbStateWriter_WriteAccountStorage(d, address, key, original, value, blockNr) ==
  LET compositeKey == <<address, HashKey(key)>>
      d1 == [d EXCEPT !.ST = IF isEmpty(TrimLeft(value)) THEN Delete(@, compositeKey)
                             ELSE Put(@, compositeKey, TrimLeft(value))]
  IN  IF original = value THEN d
      ELSE IF d.noHistory THEN d1
      ELSE [d1 EXCEPT !.hST = PutS(@, compositeKey, TrimLeft(original), blockNr)]

\* ---------------------------------------------- resolver, many requests
\* pend: the continuations that asked for resolution, each [id, tc] with id the
\* trie it belongs to
\* a sort by the whole resolve key, whatever the position of the request
LessByKey(c1, c2) == SeqLess(c1.resolveKey, c2.resolveKey)

Less(c1, c2) ==
  LET m == Min2(c1.resolvePos, c2.resolvePos)
      a == SubSeq(c1.resolveKey, 1, m)
      b == SubSeq(c2.resolveKey, 1, m)
  IN  IF a # b THEN SeqLess(a, b) ELSE c1.resolvePos < c2.resolvePos

RECURSIVE sortStable(_, _)
\* the indices S of pend in the order sort.Stable gives them
sortStable(pend, S) ==
  IF S = {} THEN <<>>
  ELSE LET firsts == {x \in S : \A y \in S \ {x} :
                        \/ Less(pend[x].tc.c, pend[y].tc.c)
                        \/ ~Less(pend[y].tc.c, pend[x].tc.c) /\ x < y}
           x == IF firsts = {} THEN SetMin(S) ELSE SetMin(firsts)
       IN  <<x>> \o sortStable(pend, S \ {x})

RECURSIVE walkStarts(_, _, _)
\* PrepareResolveParams: the continuations a walk starts from
walkStarts(pend, order, prev) ==
  IF order = <<>> THEN {}
  ELSE LET c == pend[Head(order)].tc.c
           start == \/ prev = 0
                    \/ c.resolvePos < pend[prev].tc.c.resolvePos
                    \/ ~HasPrefix(SubSeq(c.resolveKey, 1, c.resolvePos),
                                  SubSeq(pend[prev].tc.c.resolveKey, 1,
                                         pend[prev].tc.c.resolvePos))
       IN  IF start
           THEN {Head(order)} \cup walkStarts(pend, Tail(order), Head(order))
           ELSE walkStarts(pend, Tail(order), prev)

\* ResolveWithDb without an error: every walk start gets its subtree
ResolveWithDb(pend) ==
  LET same(i) == {j \in DOMAIN pend : pend[j].id = pend[i].id}
      starts(i) == walkStarts(pend, sortStable(pend, same(i)), 0)
      hexes(i) == {pend[j].tc.c.resolveKey : j \in same(i)}
  IN  [i \in DOMAIN pend |->
         IF i \in starts(i)
         THEN [pend[i] EXCEPT !.tc.c = resolveFor(@, hexes(i))]
         ELSE pend[i]]

\* --------------------------------------- resolver pass over the bucket rows
RECURSIVE inKeyOrder(_)
inKeyOrder(S) ==
  IF S = {} THEN <<>>
  ELSE LET k == CHOOSE x \in S : \A y \in S : y = x \/ SeqLess(x, y)
       IN  <<k>> \o inKeyOrder(S \ {k})

\* the rows of the bucket below the walk start of continuation c
rowsBelow(rows, c) ==
  {k \in DOMAIN rows :
     HasPrefix(keybytesToHex(k), SubSeq(c.resolveKey, 1, c.resolvePos))}

RECURSIVE walkCalls(_, _, _, _)
\* MultiWalkAsOf: the calls of the walker, one for every row below every walk
\* start, in the order of the starts and of the keys, and the call that ends
\* the last group
walkCalls(rows, pend, starts, i) ==
  IF i > Len(starts) THEN <<[keyIdx |-> Len(starts), k |-> <<>>, v |-> NoBytes]>>
  ELSE LET ks == inKeyOrder(rowsBelow(rows, pend[starts[i]].tc.c))
       IN  [j \in 1 .. Len(ks) |-> [keyIdx |-> i - 1, k |-> ks[j], v |-> rows[ks[j]]]]
             \o walkCalls(rows, pend, starts, i + 1)

\* the subtree the node stacks hold at level pos once the rows of a group are
\* threaded in: the trie of the group's keys from nibble pos on
rebuildSubtree(group, pos) ==
  buildFrom({<<SubSeq(keybytesToHex(kv[1]), pos + 1, HexLen), kv[2]>> : kv \in group},
            Nil, 0)

\* the check at the end of finishPreviousKey(nil): the rebuilt root is hashed
\* and compared with the expected hash of continuation number i; only a root
\* with that hash is attached
attachChecked(w, i, root, hexes) ==
  IF root.tag = "nil" \/ hashRoot(root).hash # w.pend[i].tc.c.resolveHash
  THEN [w EXCEPT !.err = TRUE]
  ELSE [w EXCEPT !.pend[i].tc.c = resolveFor(@, hexes), !.group = {}]

\* finishPreviousKey(nil): the end of the group of walk start number w.keyIdx
finishPreviousKey(w, starts, hexes) ==
  attachChecked(w, starts[w.keyIdx + 1],
                rebuildSubtree(w.group, w.pend[starts[w.keyIdx + 1]].tc.c.resolvePos),
                hexes)

\* Walker, on a call for another walk start: the previous group is finished
nextKeyIdx(f, call) ==
  IF f.err THEN f ELSE [f EXCEPT !.key_set = FALSE, !.keyIdx = call.keyIdx]

\* Walker, on a call with a value: the row is remembered
rememberRow(a, call) ==
  IF a.err \/ isEmpty(call.v) THEN a
  ELSE [a EXCEPT !.group = @ \cup {<<call.k, call.v>>}, !.key_set = TRUE]

\* Walker: w holds keyIdx, key_set, the rows of the group so far (the node
\* stacks), the continuations and the error that ends the walk
Walker(w, call, starts, hexes) ==
  rememberRow(IF call.keyIdx = w.keyIdx THEN w
              ELSE nextKeyIdx(IF w.key_set THEN finishPreviousKey(w, starts, hexes)
                              ELSE w, call),
              call)

RECURSIVE walk(_, _, _, _)
walk(w, calls, starts, hexes) ==
  IF calls = <<>> \/ w.err THEN w
  ELSE walk(Walker(w, Head(calls), starts, hexes), Tail(calls), starts, hexes)

\* the walk starts of pend in the order of the walk
startsInOrder(pend, order, S) == SelectSeq(order, LAMBDA i : i \in S)

walkFrom(pend, rows, starts) ==
  walk([keyIdx |-> 0, key_set |-> FALSE, group |-> {}, pend |-> pend, err |-> FALSE],
       walkCalls(rows, pend, starts, 1), starts,
       {pend[j].tc.c.resolveKey : j \in DOMAIN pend})

passResult(w, S) == [err |-> w.err, pend |-> w.pend, starts |-> S]

\* ResolveWithDb of a resolver that holds the continuations pend of one trie,
\* over the rows of its bucket
ResolveWithRows(pend, rows) ==
  passResult(walkFrom(pend, rows,
                      startsInOrder(pend, sortStable(pend, DOMAIN pend),
                                    walkStarts(pend, sortStable(pend, DOMAIN pend), 0))),
             walkStarts(pend, sortStable(pend, DOMAIN pend), 0))

\* ----------------------------------------------------------- TrieDbState
AT == <<>>

New(root) == IF root = ZeroHash \/ root = emptyRoot THEN Nil ELSE hashNode(root)

ReadAccountData(t, rows, address, blockNr) ==
  LET dec(r) == [account |-> encodingToAccount(r.value), t |-> r.root]
  IN  dec(TryGet(t, rows, HashAddress(address), blockNr))

\* s: the fields t and storageTries of the TrieDbState
getStorageTrie(s, rows, address, addrHash, create, blockNr) ==
  IF addrHash \in DOMAIN s.storageTries \/ ~create THEN s
  ELSE LET made(r) ==
             [s EXCEPT !.t = r.t,
                       !.storageTries =
                          Put(@, addrHash, New(IF r.account = NilAccount THEN ZeroHash
                                               ELSE r.account.Root))]
       IN  made(ReadAccountData(s.t, rows, address, blockNr))

RECURSIVE runContinuations(_, _, _, _, _, _)
\* one pass: every continuation runs once; the ones not done are kept
runContinuations(conts, i, tries, tbl, pending, blockNr) ==
  IF i > Len(conts) THEN [tries |-> tries, tbl |-> tbl, pending |-> pending]
  ELSE LET next(r) ==
             runContinuations(conts, i + 1, [tries EXCEPT ![conts[i].id] = r.root],
                              r.tbl,
                              IF r.done THEN pending
                              ELSE Append(pending, [conts[i] EXCEPT !.tc = r.tc]),
                              blockNr)
       IN  next(RunWithDb(conts[i].tc, tries[conts[i].id], tbl, TRUE,
                          conts[i].id = AT, blockNr))

RECURSIVE resolveLoop(_, _, _, _, _, _, _)
\* the loop over oldContinuations; calls counts the calls of the resolver, the
\* call number failAt returns an error
resolveLoop(conts, tries, tbl, blockNr, calls, failAt, it) ==
  LET after(p) ==
        IF p.pending = <<>>
        THEN [err |-> FALSE, stuck |-> FALSE, tries |-> p.tries, tbl |-> p.tbl,
              calls |-> calls]
        ELSE IF calls + 1 = failAt
        THEN [err |-> TRUE, stuck |-> FALSE, tries |-> p.tries, tbl |-> p.tbl,
              calls |-> calls + 1]
        ELSE IF it >= MaxPasses
        THEN [err |-> TRUE, stuck |-> TRUE, tries |-> p.tries, tbl |-> p.tbl,
              calls |-> calls]
        ELSE resolveLoop(ResolveWithDb(p.pending), p.tries, p.tbl, blockNr,
                         calls + 1, failAt, it + 1)
  IN  after(runContinuations(conts, 1, tries, tbl, <<>>, blockNr))

\* a first loop that leaves the storage updates out
skipStorageUpdates(sord, i, r, s, rows) == r

RECURSIVE storageContinuations(_, _, _, _, _)
\* the first loop of trieRoot over storageUpdates, in the order sord of the
\* map iteration; r: the fields t and storageTries, and the continuations
storageContinuations(sord, i, r, s, rows) ==
  IF i > Len(sord) THEN r
  ELSE LET address == sord[i][1]
           keyHash == sord[i][2]
           v == s.storageUpdates[address][keyHash]
           with(g) ==
             [g EXCEPT !.conts =
                Append(@, [id |-> HashAddress(address),
                           tc |-> IF ~isEmpty(v) THEN UpdateAction(keyHash, v)
                                  ELSE DeleteAction(keyHash)])]
       IN  IF HashAddress(address) \in s.deleted
           THEN storageContinuations(sord, i + 1, r, s, rows)
           ELSE storageContinuations(
                  sord, i + 1,
                  with(getStorageTrie(r, rows, address, HashAddress(address), TRUE,
                                      s.blockNr)),
                  s, rows)

RECURSIVE accountContinuations(_, _, _, _, _)
\* the loop of trieRoot over accountUpdates, in the order aord of the map
\* iteration; r: accountUpdates, storageTries and the continuations
accountContinuations(aord, i, r, deleted, forward) ==
  IF i > Len(aord) THEN r
  ELSE LET addrHash == aord[i]
           account == r.accountUpdates[addrHash]
           loaded == addrHash \in DOMAIN r.storageTries
           refresh == account # NilAccount /\ addrHash \notin deleted /\ loaded /\ forward
           h == hashRoot(IF loaded THEN r.storageTries[addrHash] ELSE Nil)
           account1 == IF account = NilAccount THEN account
                       ELSE IF addrHash \in deleted THEN [account EXCEPT !.Root = emptyRoot]
                       ELSE IF refresh THEN [account EXCEPT !.Root = h.hash]
                       ELSE account
           deleteStorageTrie == account = NilAccount \/ addrHash \in deleted
           c == IF account # NilAccount THEN UpdateAction(addrHash, rlpAccount(account1))
                ELSE DeleteAction(addrHash)
       IN  accountContinuations(
             aord, i + 1,
             [accountUpdates |-> [r.accountUpdates EXCEPT ![addrHash] = account1],
              storageTries |-> IF deleteStorageTrie /\ loaded
                               THEN Delete(r.storageTries, addrHash)
                               ELSE IF refresh
                               THEN [r.storageTries EXCEPT ![addrHash] = h.root]
                               ELSE r.storageTries,
              conts |-> Append(r.conts, [id |-> AT, tc |-> c])],
             deleted, forward)

\* s: the TrieDbState [t, storageTries, storageUpdates, accountUpdates, deleted,
\* hashes, blockNr]; rows: the accounts bucket read by getStorageTrie
trieRoot(s, rows, forward, sord, aord, failAt) ==
  LET finish(s2, h) ==
        [err |-> FALSE, stuck |-> FALSE, root |-> h.hash,
         s |-> [s2 EXCEPT !.t = h.root,
                          !.hashes = SaveHashes(@, h.root, TRUE, s.blockNr)]]
      accounts(s2, l2) ==
        IF l2.err
        THEN [err |-> TRUE, stuck |-> l2.stuck, root |-> ZeroHash,
              s |-> [s2 EXCEPT !.t = l2.tries[AT], !.hashes = l2.tbl]]
        ELSE finish([s2 EXCEPT !.hashes = l2.tbl], hashRoot(l2.tries[AT]))
      second(s1, l1, a) ==
        accounts([s1 EXCEPT !.accountUpdates = a.accountUpdates,
                            !.storageTries = a.storageTries],
                 resolveLoop(a.conts, [x \in {AT} |-> s1.t], l1.tbl, s.blockNr,
                             l1.calls, failAt, 0))
      storage(s1, l1) ==
        IF l1.err
        THEN [err |-> TRUE, stuck |-> l1.stuck, root |-> ZeroHash,
              s |-> [s1 EXCEPT !.storageTries = l1.tries]]
        ELSE second(s1, l1,
                    accountContinuations(
                      aord, 1,
                      [accountUpdates |-> s.accountUpdates, storageTries |-> l1.tries,
                       conts |-> <<>>],
                      s.deleted, forward))
      first(g) ==
        storage([s EXCEPT !.t = g.t, !.storageTries = g.storageTries],
                resolveLoop(g.conts, g.storageTries, s.hashes, s.blockNr, 0, failAt, 0))
      empty(h) == [err |-> FALSE, stuck |-> FALSE, root |-> h.hash,
                   s |-> [s EXCEPT !.t = h.root]]
  IN  IF DOMAIN s.storageUpdates = {} /\ DOMAIN s.accountUpdates = {}
      THEN empty(hashRoot(s.t))
      ELSE first(storageContinuations(
                   sord, 1,
                   [t |-> s.t, storageTries |-> s.storageTries, conts |-> <<>>],
                   s, rows))

\* the buffers as a failed or finished call must not leave them
keepUpdates(s) == s

clearUpdates(s) ==
  [s EXCEPT !.storageUpdates = <<>>, !.accountUpdates = <<>>, !.deleted = {}]

\* TrieRoot; accounts: the buffered accounts as trieRoot left them, which the
\* state objects of the block share
TrieRoot(s, rows, sord, aord, failAt) ==
  LET after(r) ==
        [err |-> r.err, stuck |-> r.stuck, root |-> r.root,
         accounts |-> r.s.accountUpdates, s |-> clearUpdates(r.s)]
  IN  after(trieRoot(s, rows, TRUE, sord, aord, failAt))

RECURSIVE Perms(_)
\* the orders in which a map with the keys S can be iterated
Perms(S) ==
  IF S = {} THEN {<<>>}
  ELSE UNION {{<<x>> \o p : p \in Perms(S \ {x})} : x \in S}

\* the orders of the nested iteration over storageUpdates
StorageOrders(storageUpdates) ==
  {o \in Perms({x \in (DOMAIN storageUpdates) \X KeyBytes :
                  x[2] \in DOMAIN storageUpdates[x[1]]}) :
     \A i, j, k \in DOMAIN o :
       (i < j /\ j < k /\ o[i][1] = o[k][1]) => o[j][1] = o[i][1]}

AccountOrders(accountUpdates) == Perms(DOMAIN accountUpdates)

\* the callback UnwindTo gives to RewindData, over every key rewindData reports
rewindBuffers(s, d, blockNr) ==
  LET acc == rewindData(d.AT, d.hAT, s.blockNr, blockNr)
      sto == rewindData(d.ST, d.hST, s.blockNr, blockNr)
      addrs == {x[1] : x \in DOMAIN sto}
  IN  [s EXCEPT
         !.accountUpdates =
            [h \in (DOMAIN @) \cup (DOMAIN acc) |->
               IF h \in DOMAIN acc
               THEN IF ~isEmpty(acc[h]) THEN encodingToAccount(acc[h]) ELSE NilAccount
               ELSE @[h]],
         !.deleted = @ \cup {h \in DOMAIN acc : isEmpty(acc[h])},
         !.storageUpdates =
            [a \in (DOMAIN @) \cup addrs |->
               LET m == IF a \in DOMAIN @ THEN @[a] ELSE <<>>
                   ks == {x[2] : x \in {y \in DOMAIN sto : y[1] = a}}
               IN  [k \in (DOMAIN m) \cup ks |->
                      IF k \in ks THEN sto[<<a, k>>] ELSE m[k]]]]

\* the rows UnwindTo writes back from the buffers
restoreAccounts(rows, accountUpdates) ==
  [h \in ((DOMAIN rows) \cup (DOMAIN accountUpdates))
         \ {x \in DOMAIN accountUpdates : accountUpdates[x] = NilAccount} |->
     IF h \in DOMAIN accountUpdates THEN accountToEncoding(accountUpdates[h])
     ELSE rows[h]]

restoreStorage(rows, storageUpdates) ==
  LET written == {x \in (DOMAIN storageUpdates) \X KeyBytes :
                    x[2] \in DOMAIN storageUpdates[x[1]]}
  IN  [c \in ((DOMAIN rows) \cup written)
             \ {x \in written : isEmpty(storageUpdates[x[1]][x[2]])} |->
         IF c \in written THEN storageUpdates[c[1]][c[2]] ELSE rows[c]]

\* UnwindTo(blockNr) on the TrieDbState s and the buckets d; s1 is s with the
\* buffers filled by the rewind
UnwindTo(s, d, blockNr, sord, aord, failAt) ==
  LET after(r) ==
        IF r.err THEN [err |-> TRUE, s |-> r.s, d |-> d]
        ELSE [err |-> FALSE,
              s |-> [clearUpdates(r.s) EXCEPT !.blockNr = blockNr],
              d |-> [AT |-> restoreAccounts(d.AT, r.s.accountUpdates),
                     ST |-> restoreStorage(d.ST, r.s.storageUpdates),
                     hAT |-> DeleteTimestamps(d.hAT, s.blockNr, blockNr),
                     hST |-> DeleteTimestamps(d.hST, s.blockNr, blockNr)]]
  IN  after(trieRoot(rewindBuffers(s, d, blockNr), d.AT, FALSE, sord, aord, failAt))

\* ------------------------------------------------------------ witness
\* A witness of one trie: masks (one word per node, the low 16 bits the
\* children given as hashes, the high 16 bits the children that follow),
\* shortKeys, values and hashes, each in depth-first order.
NoProof == [masks |-> <<>>, shortKeys |-> <<>>, values |-> <<>>, hashes |-> <<>>]

ProofCat(p, q) ==
  [masks |-> p.masks \o q.masks, shortKeys |-> p.shortKeys \o q.shortKeys,
   values |-> p.values \o q.values, hashes |-> p.hashes \o q.hashes]

onPath(path, hexes) == \E K \in hexes : HasPrefix(K, path)

RECURSIVE SumPow2(_)
SumPow2(S) == IF S = {} THEN 0
              ELSE LET x == CHOOSE y \in S : TRUE IN Pow2(x) + SumPow2(S \ {x})

RECURSIVE proofOf(_, _, _)
RECURSIVE proofOfChildren(_, _, _, _)
\* the witness of the children i.. of the branch e that lie on a path
proofOfChildren(e, i, path, hexes) ==
  IF i > 15 THEN NoProof
  ELSE IF e.Children[i].tag \in {"encShort", "encBranch"} /\ onPath(Append(path, i), hexes)
  THEN ProofCat(proofOf(e.Children[i], Append(path, i), hexes),
                proofOfChildren(e, i + 1, path, hexes))
  ELSE proofOfChildren(e, i + 1, path, hexes)

\* the witness of the node with encoding e at `path` for the keys `hexes`
proofOf(e, path, hexes) ==
  CASE e.tag = "encShort" ->
         LET nKey == compactToHex(e.Key)
             here == [NoProof EXCEPT !.masks = <<0>>, !.shortKeys = <<nKey>>]
         IN  IF e.Val.tag = "value"
             THEN [here EXCEPT !.values = <<e.Val.v>>]
             ELSE ProofCat(here, proofOf(e.Val, path \o nKey, hexes))
    [] e.tag = "encBranch" ->
         LET set == {i \in 0 .. 15 : e.Children[i].tag # "nil"}
             down == {i \in set : /\ e.Children[i].tag \in {"encShort", "encBranch"}
                                  /\ onPath(Append(path, i), hexes)}
             hs == [i \in 0 .. 15 |-> IF i \in set \ down THEN <<e.Children[i]>> ELSE <<>>]
             cat[i \in 0 .. 16] == IF i = 16 THEN <<>> ELSE hs[i] \o cat[i + 1]
         IN  ProofCat([NoProof EXCEPT
                         !.masks = <<SumPow2(set \ down) + 65536 * SumPow2(down)>>,
                         !.hashes = cat[0]],
                      proofOfChildren(e, 0, path, hexes))
    [] OTHER -> NoProof

\* ---------------------------------------------------- trie from a witness
\* idx: the four read positions; panic: a read past the end of an array
NoIdx == [mask |-> 0, short |-> 0, value |-> 0, hash |-> 0, panic |-> FALSE]

RECURSIVE construct(_, _, _)
RECURSIVE constructHashes(_, _, _, _, _)
\* the first loop of construct over the nibbles of mask
constructHashes(children, nibble, mask, p, idx) ==
  IF nibble > 15 \/ idx.panic THEN [children |-> children, idx |-> idx]
  ELSE IF Bit(mask, nibble) = 1
  THEN IF idx.hash >= Len(p.hashes)
       THEN [children |-> children, idx |-> [idx EXCEPT !.panic = TRUE]]
       ELSE constructHashes([children EXCEPT ![nibble] = hashNode(p.hashes[idx.hash + 1])],
                            nibble + 1, mask, p, [idx EXCEPT !.hash = @ + 1])
  ELSE constructHashes(children, nibble + 1, mask, p, idx)

RECURSIVE constructDown(_, _, _, _, _, _)
\* the second loop of construct over the nibbles of downmask
constructDown(children, nibble, downmask, pos, p, idx) ==
  IF nibble > 15 \/ idx.panic THEN [children |-> children, idx |-> idx]
  ELSE IF Bit(downmask, nibble) = 1
  THEN LET next(r) == constructDown([children EXCEPT ![nibble] = r.n], nibble + 1,
                                    downmask, pos, p, r.idx)
       IN  next(construct(pos + 1, p, idx))
  ELSE constructDown(children, nibble + 1, downmask, pos, p, idx)

construct(pos, p, idx) ==
  IF idx.panic \/ idx.mask >= Len(p.masks) \/ pos > HexLen
  THEN [n |-> Nil, idx |-> [idx EXCEPT !.panic = TRUE]]
  ELSE LET fullMask == p.masks[idx.mask + 1]
           mask == fullMask % 65536
           downmask == fullMask \div 65536
           idx1 == [idx EXCEPT !.mask = @ + 1]
           short(nKey, r) ==
             [n |-> [tag |-> "short", Key |-> hexToCompact(nKey), Val |-> r.n,
                     dirty |-> TRUE, hash |-> NoHash, t |-> 0],
              idx |-> r.idx]
           full(r) == [n |-> [newFull(r.children, 0) EXCEPT !.dirty = TRUE], idx |-> r.idx]
           down(r) == full(constructDown(r.children, 0, downmask, pos, p, r.idx))
       IN  IF mask = 0
           THEN IF idx1.short >= Len(p.shortKeys)
                THEN [n |-> Nil, idx |-> [idx1 EXCEPT !.panic = TRUE]]
                ELSE IF pos + Len(p.shortKeys[idx1.short + 1]) = HexLen
                THEN IF idx1.value >= Len(p.values)
                     THEN [n |-> Nil, idx |-> [idx1 EXCEPT !.panic = TRUE]]
                     ELSE short(p.shortKeys[idx1.short + 1],
                                [n |-> valueNode(p.values[idx1.value + 1]),
                                 idx |-> [idx1 EXCEPT !.short = @ + 1, !.value = @ + 1]])
                ELSE short(p.shortKeys[idx1.short + 1],
                           construct(pos + Len(p.shortKeys[idx1.short + 1]), p,
                                     [idx1 EXCEPT !.short = @ + 1]))
           ELSE down(constructHashes(NoChildren, 0, mask, p, idx1))

\* NewFromProofs: the trie and the positions after it
NewFromProofs(p, idx) == construct(0, p, idx)

\* ------------------------------------------------------------ Stateless
\* BlockProof: the witness of the account trie and, concatenated in the order
\* of Contracts, the witnesses of the storage tries
BlockProof(p, contracts, cp) ==
  [Masks |-> p.masks, ShortKeys |-> p.shortKeys, Values |-> p.values,
   Hashes |-> p.hashes, Contracts |-> contracts,
   CMasks |-> cp.masks, CShortKeys |-> cp.shortKeys, CValues |-> cp.values,
   CHashes |-> cp.hashes]

RECURSIVE contractProofs(_, _, _, _)
\* the storage witnesses of contracts[i..]; roots: address -> storage root
contractProofs(contracts, i, roots, hexes) ==
  IF i > Len(contracts) THEN NoProof
  ELSE ProofCat(proofOf(roots[contracts[i]], <<>>, hexes),
                contractProofs(contracts, i + 1, roots, hexes))

\* the block-proof for the account trie with root hash e and the account keys
\* `hexes`, the contracts listed with every storage key in `shexes`
ExtractProofs(e, hexes, contracts, roots, shexes) ==
  BlockProof(proofOf(e, <<>>, hexes), contracts,
             contractProofs(contracts, 1, roots, shexes))

RECURSIVE newStatelessContracts(_, _, _, _, _)
\* the loop of NewStateless over blockProof.Contracts
newStatelessContracts(blockProof, i, idx, s, blockNr) ==
  IF i > Len(blockProof.Contracts) THEN [err |-> FALSE, panic |-> FALSE, s |-> s]
  ELSE LET addrHash == HashAddress(blockProof.Contracts[i])
           check(st, enc) ==
             IF st.idx.panic \/ encodingToAccount(enc.value) = NilAccount
             THEN [err |-> TRUE, panic |-> TRUE, s |-> Nil]
             ELSE IF encodingToAccount(enc.value).Root # hashRoot(st.n).hash
             THEN [err |-> TRUE, panic |-> FALSE, s |-> Nil]
             ELSE newStatelessContracts(
                    blockProof, i + 1, st.idx,
                    [s EXCEPT !.t = enc.root,
                              !.storageTries = Put(@, addrHash, hashRoot(st.n).root)],
                    blockNr)
       IN  check(NewFromProofs([masks |-> blockProof.CMasks,
                                shortKeys |-> blockProof.CShortKeys,
                                values |-> blockProof.CValues,
                                hashes |-> blockProof.CHashes], idx),
                 TryGet(s.t, <<>>, addrHash, blockNr))

\* a constructor that takes the account trie as it comes, whatever its root
NewStatelessUnchecked(stateRoot, blockProof, blockNr) ==
  LET made(r, h) ==
        IF r.idx.panic
        THEN [err |-> TRUE, panic |-> TRUE, s |-> Nil]
        ELSE [err |-> FALSE, panic |-> FALSE,
              s |-> [t |-> h.root, storageTries |-> <<>>, storageUpdates |-> <<>>,
                     accountUpdates |-> <<>>, deleted |-> {}, blockNr |-> blockNr]]
      hash(r) == made(r, hashRoot(r.n))
  IN  hash(NewFromProofs([masks |-> blockProof.Masks,
                          shortKeys |-> blockProof.ShortKeys,
                          values |-> blockProof.Values,
                          hashes |-> blockProof.Hashes], NoIdx))

\* NewStateless: panic stands for the failures the code does not catch (a read
\* past the end of an array, the account of a contract that is not there)
NewStateless(stateRoot, blockProof, blockNr) ==
  LET made(r, h) ==
        IF r.idx.panic
        THEN [err |-> TRUE, panic |-> TRUE, s |-> Nil]
        ELSE IF stateRoot # h.hash
        THEN [err |-> TRUE, panic |-> FALSE, s |-> Nil]
        ELSE newStatelessContracts(
               blockProof, 1, NoIdx,
               [t |-> h.root, storageTries |-> <<>>, storageUpdates |-> <<>>,
                accountUpdates |-> <<>>, deleted |-> {}, blockNr |-> blockNr],
               blockNr)
      hash(r) == made(r, hashRoot(r.n))
  IN  hash(NewFromProofs([masks |-> blockProof.Masks,
                          shortKeys |-> blockProof.ShortKeys,
                          values |-> blockProof.Values,
                          hashes |-> blockProof.Hashes], NoIdx))

Stateless_UpdateAccountData(s, address, account) ==
  [s EXCEPT !.accountUpdates = Put(@, HashAddress(address), account)]

Stateless_DeleteAccount(s, address) ==
  [s EXCEPT !.accountUpdates = Put(@, HashAddress(address), NilAccount),
            !.deleted = @ \cup {HashAddress(address)}]

\* a verifier that ignores the storage writes of the block
Stateless_IgnoreAccountStorage(s, address, key, value) == s

Stateless_WriteAccountStorage(s, address, key, value) ==
  LET m == IF address \in DOMAIN s.storageUpdates THEN s.storageUpdates[address]
           ELSE <<>>
  IN  [s EXCEPT !.storageUpdates = Put(@, address, Put(m, HashKey(key), TrimLeft(value)))]

RECURSIVE ascending(_)
\* the addresses of S in ascending order
ascending(S) ==
  IF S = {} THEN <<>>
  ELSE LET m == CHOOSE x \in S : \A y \in S : x <= y
       IN  <<m>> \o ascending(S \ {m})

RECURSIVE sortHashes(_)
\* sort.Sort(hashes)
sortHashes(S) ==
  IF S = {} THEN <<>>
  ELSE LET m == CHOOSE x \in S : \A y \in S : y = x \/ SeqLess(x, y)
       IN  <<m>> \o sortHashes(S \ {m})

RECURSIVE checkRootKeys(_, _, _, _, _)
\* the loop of CheckRoot over the sorted key hashes of one account
checkRootKeys(root, hs, j, m, blockNr) ==
  IF j > Len(hs) THEN [ok |-> TRUE, root |-> root]
  ELSE LET ran(r) == IF ~r.done THEN [ok |-> FALSE, root |-> r.root]
                     ELSE checkRootKeys(r.root, hs, j + 1, m, blockNr)
       IN  ran(RunWithDb(IF ~isEmpty(m[hs[j]]) THEN UpdateAction(hs[j], m[hs[j]])
                         ELSE DeleteAction(hs[j]),
                         root, <<>>, FALSE, FALSE, blockNr - 1))

RECURSIVE checkRootStorage(_, _, _)
\* the first loop of CheckRoot; the tries of the accounts are disjoint, the
\* addresses are taken in ascending order
checkRootStorage(addrs, i, s) ==
  IF i > Len(addrs) THEN [ok |-> TRUE, s |-> s]
  ELSE LET address == addrs[i]
           addrHash == HashAddress(address)
           m == s.storageUpdates[address]
           t0 == IF addrHash \in DOMAIN s.storageTries THEN s.storageTries[addrHash]
                 ELSE New(ZeroHash)
           ran(r) == IF ~r.ok
                     THEN [ok |-> FALSE,
                           s |-> [s EXCEPT !.storageTries = Put(@, addrHash, r.root)]]
                     ELSE checkRootStorage(
                            addrs, i + 1,
                            [s EXCEPT !.storageTries = Put(@, addrHash, r.root)])
       IN  IF addrHash \in s.deleted THEN checkRootStorage(addrs, i + 1, s)
           ELSE ran(checkRootKeys(t0, sortHashes(DOMAIN m), 1, m, s.blockNr))

RECURSIVE checkRootAccounts(_, _, _)
\* the second loop of CheckRoot over the sorted address hashes
checkRootAccounts(addrs, i, s) ==
  IF i > Len(addrs) THEN [ok |-> TRUE, s |-> s]
  ELSE LET addrHash == addrs[i]
           account == s.accountUpdates[addrHash]
           loaded == addrHash \in DOMAIN s.storageTries
           h == hashRoot(IF loaded THEN s.storageTries[addrHash] ELSE Nil)
           account1 == IF account = NilAccount THEN account
                       ELSE IF addrHash \in s.deleted
                       THEN [account EXCEPT !.Root = emptyRoot]
                       ELSE IF loaded THEN [account EXCEPT !.Root = h.hash]
                       ELSE account
           deleteStorageTrie == account = NilAccount \/ addrHash \in s.deleted
           c == IF account # NilAccount THEN UpdateAction(addrHash, rlpAccount(account1))
                ELSE DeleteAction(addrHash)
           s1 == [s EXCEPT !.accountUpdates[addrHash] = account1,
                           !.storageTries =
                              IF account # NilAccount /\ addrHash \notin s.deleted /\ loaded
                              THEN [@ EXCEPT ![addrHash] = h.root] ELSE @]
           ran(r) == IF ~r.done THEN [ok |-> FALSE, s |-> [s1 EXCEPT !.t = r.root]]
                     ELSE checkRootAccounts(
                            addrs, i + 1,
                            [s1 EXCEPT !.t = r.root,
                                       !.storageTries =
                                          IF deleteStorageTrie /\ loaded
                                          THEN Delete(@, addrHash) ELSE @])
       IN  ran(RunWithDb(c, s.t, <<>>, FALSE, FALSE, s.blockNr - 1))

\* a CheckRoot that does not compare the root it computed
CheckRootUncompared(s, expected, check) ==
  LET done(s2, h) ==
        [err |-> FALSE, unexpected |-> FALSE, root |-> h.hash,
         s |-> [s2 EXCEPT !.t = h.root, !.storageUpdates = <<>>,
                          !.accountUpdates = <<>>, !.deleted = {}]]
      accounts(r) ==
        IF ~r.ok THEN [err |-> TRUE, unexpected |-> TRUE, root |-> ZeroHash, s |-> r.s]
        ELSE done(r.s, hashRoot(r.s.t))
      storage(r) ==
        IF ~r.ok THEN [err |-> TRUE, unexpected |-> TRUE, root |-> ZeroHash, s |-> r.s]
        ELSE accounts(checkRootAccounts(sortHashes(DOMAIN r.s.accountUpdates), 1, r.s))
  IN  storage(checkRootStorage(ascending(DOMAIN s.storageUpdates), 1, s))

\* CheckRoot: unexpected is the error "Unexpected resolution", root the hash
\* the verifier computed when both loops finished
CheckRoot(s, expected, check) ==
  LET done(s2, h) ==
        IF check /\ h.hash # expected
        THEN [err |-> TRUE, unexpected |-> FALSE, root |-> h.hash,
              s |-> [s2 EXCEPT !.t = h.root]]
        ELSE [err |-> FALSE, unexpected |-> FALSE, root |-> h.hash,
              s |-> [s2 EXCEPT !.t = h.root, !.storageUpdates = <<>>,
                               !.accountUpdates = <<>>, !.deleted = {}]]
      accounts(r) ==
        IF ~r.ok THEN [err |-> TRUE, unexpected |-> TRUE, root |-> ZeroHash, s |-> r.s]
        ELSE done(r.s, hashRoot(r.s.t))
      storage(r) ==
        IF ~r.ok THEN [err |-> TRUE, unexpected |-> TRUE, root |-> ZeroHash, s |-> r.s]
        ELSE accounts(checkRootAccounts(sortHashes(DOMAIN r.s.accountUpdates), 1, r.s))
  IN  storage(checkRootStorage(ascending(DOMAIN s.storageUpdates), 1, s))

\* ------------------------------------------------ recording of the witness
\* The record TrieDbState keeps while resolveReads is on: readProofMasks and
\* readProofHashes by path, proofShorts by path, proofValues in the order of the
\* calls.  valueKeys is not kept by the code: it names, for each element of
\* proofValues, the path of the value.
NoProofs ==
  [readProofMasks |-> <<>>, readProofHashes |-> <<>>, proofShorts |-> <<>>,
   proofValues |-> <<>>, valueKeys |-> <<>>]

\* m & mask on the sixteen bits of a node
andMask(m, mask) == SumPow2({i \in 0 .. 15 : Bit(m, i) = 1 /\ Bit(mask, i) = 1})

\* var h [16]common.Hash
ZeroHashes == [i \in 0 .. 15 |-> ZeroHash]

RECURSIVE fillHashes(_, _, _, _, _, _)
\* the loop of addReadProof and addWriteProof over the nibbles: h[i] takes
\* hashes[idx] for every bit of mask, idx counting the bits of mask met so
\* far; clear: h[i] is zeroed for the other bits
fillHashes(h, mask, hs, i, idx, clear) ==
  IF i > 15 THEN h
  ELSE IF Bit(mask, i) = 1
  THEN fillHashes([h EXCEPT ![i] = hs[idx + 1]], mask, hs, i + 1, idx + 1, clear)
  ELSE fillHashes(IF clear THEN [h EXCEPT ![i] = ZeroHash] ELSE h,
                  mask, hs, i + 1, idx, clear)

\* addReadProof for the path ks = prefix + key[:pos]
addReadProof(pr, ks, mask, hs) ==
  IF ks \in DOMAIN pr.readProofMasks
  THEN LET intersection == andMask(pr.readProofMasks[ks], mask)
       IN  [pr EXCEPT !.readProofMasks[ks] = intersection,
                      !.readProofHashes[ks] = fillHashes(@, intersection, hs, 0, 0, TRUE)]
  ELSE [pr EXCEPT !.readProofMasks = Put(@, ks, mask),
                  !.readProofHashes = Put(@, ks, fillHashes(ZeroHashes, mask, hs, 0, 0, FALSE))]

\* addWriteProof: as addReadProof, but the hashes of a path that has a record
\* are left as they are
addWriteProof(pr, ks, mask, hs) ==
  IF ks \in DOMAIN pr.readProofMasks
  THEN [pr EXCEPT !.readProofMasks[ks] = andMask(@, mask)]
  ELSE [pr EXCEPT !.readProofMasks = Put(@, ks, mask),
                  !.readProofHashes = Put(@, ks, fillHashes(ZeroHashes, mask, hs, 0, 0, FALSE))]

addValue(pr, ks, value) ==
  [pr EXCEPT !.proofValues = Append(@, value), !.valueKeys = Append(@, ks)]

addShort(pr, ks, short) ==
  IF ks \in DOMAIN pr.proofShorts THEN pr
  ELSE [pr EXCEPT !.proofShorts = Put(@, ks, short)]

\* n.mask of a duoNode, n.mask() of a fullNode: the bits of the children
nodeMask(n) ==
  IF n.tag = "duo" THEN n.mask
  ELSE SumPow2(NonNilIdx(n.Children) \cap (0 .. 15))

childAt(n, i) ==
  IF n.tag = "full" THEN n.Children[i]
  ELSE IF i = childrenIdx(n)[1] THEN n.child1
  ELSE IF i = childrenIdx(n)[2] THEN n.child2
  ELSE Nil

RECURSIVE hashesFrom(_, _, _)
\* n.hashesExcept(nibble): the hashes of the children other than nibble, in
\* the order of the nibbles
hashesFrom(n, nibble, i) ==
  IF i > 15 THEN <<>>
  ELSE (IF i # nibble /\ Bit(nodeMask(n), i) = 1
        THEN <<hashRef(hashed(childAt(n, i)))>> ELSE <<>>)
       \o hashesFrom(n, nibble, i + 1)

hashesExcept(n, nibble) == hashesFrom(n, nibble, 0)

\* mask &^ (1 << nibble)
maskExcept(mask, nibble) == IF Bit(mask, nibble) = 1 THEN mask - Pow2(nibble) ELSE mask

RECURSIVE tryGet1Proofs(_, _, _, _)
\* what tryGet1 records below origNode while resolveReads is on; a Hash is
\* resolved and the read goes on in the resolved node
tryGet1Proofs(pr, origNode, key, pos) ==
  CASE origNode.tag = "nil" -> pr
    [] origNode.tag = "value" -> addValue(pr, SubSeq(key, 1, pos), origNode.v)
    [] origNode.tag = "short" ->
         LET nKey == compactToHex(origNode.Key)
             p1 == addShort(pr, SubSeq(key, 1, pos), nKey)
         IN  IF Len(key) - pos < Len(nKey) \/ nKey # SubSeq(key, pos + 1, pos + Len(nKey))
             THEN p1
             ELSE tryGet1Proofs(p1, origNode.Val, key, pos + Len(nKey))
    [] origNode.tag \in {"duo", "full"} ->
         LET p1 == addReadProof(pr, SubSeq(key, 1, pos),
                                maskExcept(nodeMask(origNode), key[pos + 1]),
                                hashesExcept(origNode, key[pos + 1]))
         IN  tryGet1Proofs(p1, childAt(origNode, key[pos + 1]), key, pos + 1)
    [] origNode.tag = "hash" ->
         tryGet1Proofs(pr, expand(origNode.d, SubSeq(key, 1, pos), {key}), key, pos)
    [] OTHER -> pr

RECURSIVE insertProofs(_, _, _, _)
\* what insert records on its way down to key while resolveReads is on
insertProofs(pr, origNode, key, pos) ==
  IF Len(key) = pos
  THEN IF origNode.tag = "value" THEN addValue(pr, SubSeq(key, 1, pos), origNode.v)
       ELSE IF origNode.tag = "nil" THEN pr
       ELSE addWriteProof(pr, SubSeq(key, 1, pos), 0, <<hashRef(hashed(origNode))>>)
  ELSE
  CASE origNode.tag = "short" ->
         LET nKey == compactToHex(origNode.Key)
             matchlen == prefixLen(Tail2(key, pos), nKey)
             ks == SubSeq(key, 1, pos + matchlen)
             p1 == addShort(pr, SubSeq(key, 1, pos), nKey)
         IN  IF matchlen = Len(nKey)
             THEN insertProofs(IF origNode.Val.tag = "value"
                               THEN addValue(p1, ks, origNode.Val.v) ELSE p1,
                               origNode.Val, key, pos + matchlen)
             ELSE IF origNode.Val.tag = "value" THEN addValue(p1, ks, origNode.Val.v)
             ELSE addWriteProof(p1, ks, 0, <<hashRef(hashed(origNode.Val))>>)
    [] origNode.tag \in {"duo", "full"} ->
         LET p1 == addWriteProof(pr, SubSeq(key, 1, pos),
                                 maskExcept(nodeMask(origNode), key[pos + 1]),
                                 hashesExcept(origNode, key[pos + 1]))
         IN  insertProofs(p1, childAt(origNode, key[pos + 1]), key, pos + 1)
    [] OTHER -> pr

RECURSIVE hashesOfMask(_, _, _)
\* the loop of ExtractProofs that appends harray[i] for every bit of rwMask
hashesOfMask(harray, rwMask, i) ==
  IF i > 15 THEN <<>>
  ELSE (IF Bit(rwMask, i) = 1 THEN <<harray[i]>> ELSE <<>>)
       \o hashesOfMask(harray, rwMask, i + 1)

\* the downward mask of ExtractProofs: the nibbles under which keySet holds
\* a path
downmaskOf(keySet, path) ==
  SumPow2({nibble \in 0 .. 15 : Append(path, nibble) \in keySet})

RECURSIVE extractKeys(_, _, _, _, _)
\* the loop of ExtractProofs over the sorted keys
extractKeys(pr, keys, i, keySet, out) ==
  IF i > Len(keys) THEN out
  ELSE LET key == keys[i]
           maskPresent == key \in DOMAIN pr.readProofMasks
           rwMask == IF maskPresent THEN pr.readProofMasks[key] ELSE 0
           harray == [j \in 0 .. 15 |->
                        IF maskPresent /\ Bit(rwMask, j) = 1
                        THEN pr.readProofHashes[key][j] ELSE ZeroHash]
           out1 == IF maskPresent
                   THEN [out EXCEPT
                           !.hashes = @ \o hashesOfMask(harray, rwMask, 0),
                           !.masks = Append(@, rwMask + 65536 * downmaskOf(keySet, key))]
                   ELSE out
           shortPresent == key \in DOMAIN pr.proofShorts
           short == IF shortPresent THEN pr.proofShorts[key] ELSE <<>>
           out2 == IF shortPresent
                   THEN [out1 EXCEPT
                           !.masks = Append(@, 65536 *
                                        (IF Len(key) + Len(short) < HexLen
                                         THEN downmaskOf(keySet, key \o short) ELSE 0)),
                           !.shortLens = Append(@, Len(short)),
                           !.shortKeys = Append(@, short)]
                   ELSE out1
       IN  extractKeys(pr, keys, i + 1, keySet, out2)

\* TrieDbState.ExtractProofs of the account trie: masks, hashes, shortLens and
\* values as the code returns them; shortKeys are the keys whose lengths
\* shortLens holds, for the verifier that reads keys
TrieDbState_ExtractProofs(pr) ==
  LET keySet == (DOMAIN pr.readProofMasks) \cup (DOMAIN pr.proofShorts)
      out == extractKeys(pr, sortHashes(keySet), 1, keySet,
                         [masks |-> <<>>, hashes |-> <<>>, shortLens |-> <<>>,
                          shortKeys |-> <<>>])
  IN  [masks |-> out.masks, hashes |-> out.hashes, shortLens |-> out.shortLens,
       shortKeys |-> out.shortKeys, values |-> pr.proofValues]

\* ================================================================ state
VARIABLES
  t,               \* root node of the account trie (tds.t)
  storageTries,    \* address hash -> root node of the cached storage trie
  storageUpdates,  \* address -> (key hash -> value), pending
  accountUpdates,  \* address hash -> account or Nil, pending
  deleted,         \* address hashes deleted in the pending block
  blockNr,         \* tds.blockNr
  dbAT,            \* bucket AT: address hash -> account encoding
  dbST,            \* bucket ST: <<address, key hash>> -> value
  hAT,             \* bucket hAT: <<address hash, block>> -> original encoding
  hST,             \* bucket hST: <<<<address, key hash>>, block>> -> original value
  hashes,          \* hash side-table: index -> hash
  journal,         \* the state objects the block changed: address -> changes
  phase,           \* where the block-commit path stands
  committed,       \* block -> the root committed at the block
  last,            \* the last operation and what it returned
  ops,             \* number of operations so far
  proofs,          \* the witness record of tds (readProofMasks, proofShorts, ...)
  noHistory,       \* tds.noHistory
  nodeCount,       \* tds.nodeCount
  generationCounts,  \* tds.generationCounts: generation -> number of nodes
  oldestGeneration,  \* tds.oldestGeneration
  hasherPool,      \* the channel hasherPool: the hashers it buffers, oldest first
  holding,         \* goroutine -> where it stands and the hasher it holds
  created,         \* number of hashers made so far
  sigs,            \* the channel sigs of the driver: signals buffered
  interruptCh,     \* the channel interruptCh: flags buffered
  forwarder,       \* where the goroutine that forwards the signal stands
  interrupt,       \* the local interrupt of the driver's loop
  blockNum,        \* the local blockNum of the driver's loop
  driverPc,        \* where the driver stands
  chain,           \* number of blocks the chain bcb of the driver holds
  begun,           \* blocks begun since the signal arrived and since it was forwarded
  resolver         \* a TrieResolver: continuations, resolveHexes, contIndices, startLevel

tdsVars == <<storageTries, storageUpdates, accountUpdates, deleted>>
dbVars == <<dbAT, dbST, hAT, hST>>
vars == <<t, storageTries, storageUpdates, accountUpdates, deleted, blockNr,
          dbAT, dbST, hAT, hST, hashes, journal, phase, committed, last, ops,
          proofs, noHistory, nodeCount, generationCounts, oldestGeneration,
          hasherPool, holding, created,
          sigs, interruptCh, forwarder, interrupt, blockNum, driverPc, chain, begun, resolver>>
genVars == <<nodeCount, generationCounts, oldestGeneration>>
poolVars == <<hasherPool, holding, created>>
driverVars ==
  <<sigs, interruptCh, forwarder, interrupt, blockNum, driverPc, chain, begun>>
auxVars == <<genVars, poolVars, driverVars, resolver>>

\* the parts of the state a specification leaves out stay as constructed
genIdle == nodeCount = 0 /\ generationCounts = <<>> /\ oldestGeneration = 0
poolIdle == hasherPool = <<>> /\ holding = <<>> /\ created = 0
driverIdle ==
  /\ sigs = 0
  /\ interruptCh = 0
  /\ forwarder = "none"
  /\ interrupt = FALSE
  /\ blockNum = 0
  /\ driverPc = "none"
  /\ chain = 0
  /\ begun = <<>>
resolverIdle == resolver = <<>>
AuxIdle == genIdle /\ poolIdle /\ driverIdle /\ resolverIdle

NoOp == [op |-> "none", err |-> FALSE]

\* ------------------------------------------------- one trie on its own
\* the tries the operations start from: every content over InitKeys (three
\* keys below one nibble and one below another), inserted and hashed in block 1
InitKeys ==
  {k \in KeyBytes :
     /\ \A i \in 1 .. (KeyLen - 2) : k[i] = 0
     /\ <<k[KeyLen - 1], k[KeyLen]>> \in {<<0, 0>>, <<0, 1>>, <<0, 2>>, <<1, 0>>}}

InitContents == {{<<keybytesToHex(k), Bytes(1)>> : k \in K} : K \in SUBSET InitKeys}

InitTrie ==
  /\ \E pairs \in InitContents :
       LET h == hashRoot(buildFrom(pairs, Nil, 1))
       IN  /\ t = h.root
           /\ hashes = SaveHashes(<<>>, h.root, TRUE, 1)
  /\ storageTries = <<>>
  /\ storageUpdates = <<>>
  /\ accountUpdates = <<>>
  /\ deleted = {}
  /\ blockNr = 1
  /\ dbAT = <<>>
  /\ dbST = <<>>
  /\ hAT = <<>>
  /\ hST = <<>>
  /\ journal = <<>>
  /\ phase = "trie"
  /\ committed = <<>>
  /\ last = NoOp
  /\ ops = 0
  /\ proofs = NoProofs
  /\ noHistory = FALSE
  /\ AuxIdle

\* what TryGet finds for every key, without touching the trie
Lookup(root) ==
  [k \in KeyBytes |->
     LET r == tryGet1(root, keybytesToHex(k), 0, 0)
     IN  [value |-> r.value, gotValue |-> r.gotValue]]

\* TryUpdate on the trie; fail: the first pass of the resolver fails
TrieUpdate ==
  \E k \in KeyBytes, v \in Value \cup {NoBytes}, fail \in BOOLEAN :
    \E r \in {TryUpdate(t, hashes, TRUE, k, v, blockNr, IF fail THEN 1 ELSE 0)} :
      /\ ops < MaxOps
      /\ ~last.err
      /\ fail => r.err
      /\ t' = r.root
      /\ hashes' = r.tbl
      /\ last' = [op |-> "update", key |-> k, value |-> v, err |-> r.err,
                  stuck |-> r.stuck, passes |-> r.passes, requests |-> r.requests]
      /\ ops' = ops + 1
      /\ UNCHANGED <<auxVars, noHistory, proofs, tdsVars, dbVars, blockNr, journal, phase, committed>>

\* TryDelete on the trie; fail: the first pass of the resolver fails
TrieDelete ==
  \E k \in KeyBytes, fail \in BOOLEAN :
    \E r \in {TryDelete(t, hashes, TRUE, k, blockNr, IF fail THEN 1 ELSE 0)} :
      /\ ops < MaxOps
      /\ ~last.err
      /\ fail => r.err
      /\ t' = r.root
      /\ hashes' = r.tbl
      /\ last' = [op |-> "delete", key |-> k, value |-> NoBytes, err |-> r.err,
                  stuck |-> r.stuck, passes |-> r.passes, requests |-> r.requests]
      /\ ops' = ops + 1
      /\ UNCHANGED <<auxVars, noHistory, proofs, tdsVars, dbVars, blockNr, journal, phase, committed>>

TrieGet ==
  \E k \in KeyBytes :
    LET r == TryGet(t, dbAT, k, blockNr)
    IN  /\ ops = 0
        /\ t' = r.root
        /\ last' = [op |-> "get", err |-> FALSE, gotValue |-> r.gotValue]
        /\ UNCHANGED <<auxVars, noHistory, proofs, tdsVars, dbVars, blockNr, hashes, journal, phase, committed, ops>>

TrieSetBlockNr ==
  /\ blockNr < MaxGen
  /\ ops = 0
  /\ blockNr' = blockNr + 1
  /\ last' = NoOp
  /\ UNCHANGED <<auxVars, noHistory, proofs, t, tdsVars, dbVars, hashes, journal, phase, committed, ops>>

TrieUnload ==
  \E gen \in 2 .. blockNr :
    /\ ops = 0
    /\ t' = UnloadOlderThan(t, gen)
    /\ last' = NoOp
    /\ UNCHANGED <<auxVars, noHistory, proofs, tdsVars, dbVars, blockNr, hashes, journal, phase, committed, ops>>

NextTrie == TrieUpdate \/ TrieDelete \/ TrieGet \/ TrieSetBlockNr \/ TrieUnload

SpecTrie == InitTrie /\ [][NextTrie]_vars

\* --------------------------------------- one trie with the recording on
MaxTraversals == 2

\* the contents the recorded block starts from: one or more keys of InitKeys,
\* the value of a key ending in 0 differing from the others
ProofContents ==
  {{<<keybytesToHex(k), Bytes(IF k[KeyLen] = 0 THEN 1 ELSE NumValues)>>
      : k \in K} : K \in (SUBSET InitKeys) \ {{}}}

\* a resolved trie hashed at block 0, committed[0] its root, block 1 begins
\* with resolveReads on and nothing recorded
InitProof ==
  /\ \E pairs \in ProofContents :
       LET h == hashRoot(buildFrom(pairs, Nil, 0))
       IN  /\ t = h.root
           /\ hashes = SaveHashes(<<>>, h.root, TRUE, 0)
           /\ committed = [b \in {0} |-> h.hash]
  /\ storageTries = <<>>
  /\ storageUpdates = <<>>
  /\ accountUpdates = <<>>
  /\ deleted = {}
  /\ blockNr = 1
  /\ dbAT = <<>>
  /\ dbST = <<>>
  /\ hAT = <<>>
  /\ hST = <<>>
  /\ journal = <<>>
  /\ phase = "recording"
  /\ last = [op |-> "none", err |-> FALSE, reads |-> <<>>, writes |-> <<>>]
  /\ ops = 0
  /\ proofs = NoProofs
  /\ noHistory = FALSE
  /\ AuxIdle

\* TryGet with resolveReads on
ProofGet ==
  /\ phase = "recording"
  /\ ops < MaxTraversals
  /\ \E k \in KeyBytes :
      \E r \in {TryGet(t, <<>>, k, blockNr)} :
        /\ t' = r.root
        /\ proofs' = tryGet1Proofs(proofs, t, keybytesToHex(k), 0)
        /\ last' = [op |-> "get", err |-> FALSE, key |-> k, value |-> r.value,
                    reads |-> Append(last.reads, k), writes |-> last.writes]
        /\ ops' = ops + 1
        /\ UNCHANGED <<auxVars, noHistory, tdsVars, dbVars, blockNr, hashes, journal, phase, committed>>

\* TryUpdate with resolveReads on
ProofUpdate ==
  /\ phase = "recording"
  /\ ops < MaxTraversals
  /\ \E k \in KeyBytes, v \in Value :
      \E r \in {TryUpdate(t, hashes, TRUE, k, v, blockNr, 0)} :
        /\ t' = r.root
        /\ hashes' = r.tbl
        /\ proofs' = insertProofs(proofs, t, keybytesToHex(k), 0)
        /\ last' = [op |-> "update", err |-> r.err, key |-> k, value |-> v,
                    reads |-> last.reads, writes |-> Append(last.writes, k)]
        /\ ops' = ops + 1
        /\ UNCHANGED <<auxVars, noHistory, tdsVars, dbVars, blockNr, journal, phase, committed>>

\* ExtractProofs at the end of the block: the arrays are returned and the
\* record is emptied
ProofExtract ==
  /\ phase = "recording"
  /\ ops > 0
  /\ phase' = "extracted"
  /\ last' = [op |-> "ExtractProofs", err |-> FALSE,
              proof |-> TrieDbState_ExtractProofs(proofs),
              valueKeys |-> proofs.valueKeys,
              reads |-> last.reads, writes |-> last.writes]
  /\ proofs' = NoProofs
  /\ UNCHANGED <<auxVars, noHistory, t, tdsVars, dbVars, blockNr, hashes, journal, committed, ops>>

NextProof == ProofGet \/ ProofUpdate \/ ProofExtract

SpecProof == InitProof /\ [][NextProof]_vars

\* ------------------------------- one trie, its bucket and a resolver pass
MaxConts == 2

\* the tries of InitTrie, with the rows of the bucket the trie was built from
InitResolver ==
  /\ \E K \in SUBSET InitKeys :
       LET h == hashRoot(buildFrom({<<keybytesToHex(k), Bytes(1)>> : k \in K}, Nil, 1))
       IN  /\ t = h.root
           /\ hashes = SaveHashes(<<>>, h.root, TRUE, 1)
           /\ dbAT = [k \in K |-> Bytes(1)]
  /\ storageTries = <<>>
  /\ storageUpdates = <<>>
  /\ accountUpdates = <<>>
  /\ deleted = {}
  /\ blockNr = 1
  /\ dbST = <<>>
  /\ hAT = <<>>
  /\ hST = <<>>
  /\ journal = <<>>
  /\ phase = "resolver"
  /\ committed = <<>>
  /\ last = NoOp
  /\ ops = 0
  /\ proofs = NoProofs
  /\ noHistory = FALSE
  /\ AuxIdle

\* the bucket loses a row the trie was built from
StoreLosesRow ==
  /\ ops = 0
  /\ phase = "resolver"
  /\ \E k \in DOMAIN dbAT :
       dbAT' = [x \in (DOMAIN dbAT) \ {k} |-> dbAT[x]]
  /\ last' = NoOp
  /\ UNCHANGED <<auxVars, noHistory, proofs, t, tdsVars, dbST, hAT, hST, blockNr, hashes, journal, phase,
                 committed, ops>>

\* a row of the bucket gets another value than the one the trie holds
StoreChangesRow ==
  /\ ops = 0
  /\ phase = "resolver"
  /\ \E k \in DOMAIN dbAT :
       \E v \in Value \ {dbAT[k]} : dbAT' = Put(dbAT, k, v)
  /\ last' = NoOp
  /\ UNCHANGED <<auxVars, noHistory, proofs, t, tdsVars, dbST, hAT, hST, blockNr, hashes, journal, phase,
                 committed, ops>>

\* up to MaxConts updates run once each on the trie; the ones that are not
\* done are given to one resolver, and the resolver makes one pass
ResolverPass ==
  /\ ops = 0
  /\ phase = "resolver"
  /\ \E n \in 1 .. MaxConts :
       \E ks \in [1 .. n -> InitKeys] :
         \E p \in {runContinuations(
                     [i \in 1 .. n |-> [id |-> AT, tc |-> UpdateAction(ks[i], Bytes(NumValues))]],
                     1, [x \in {AT} |-> t], hashes, <<>>, blockNr)} :
           /\ p.pending # <<>>
           /\ \E r \in {ResolveWithRows(p.pending, dbAT)} :
                /\ t' = p.tries[AT]
                /\ hashes' = p.tbl
                /\ last' = [op |-> "resolve", err |-> r.err, starts |-> r.starts,
                            before |-> p.pending, after |-> r.pend]
  /\ ops' = ops + 1
  /\ UNCHANGED <<auxVars, noHistory, proofs, tdsVars, dbVars, blockNr, journal, phase, committed>>

NextResolver ==
  \/ TrieGet
  \/ TrieSetBlockNr
  \/ TrieUnload
  \/ StoreLosesRow
  \/ StoreChangesRow
  \/ ResolverPass

SpecResolver == InitResolver /\ [][NextResolver]_vars

\* ------------------------------------------- blocks on the TrieDbState
MaxFail == 2

tds == [t |-> t, storageTries |-> storageTries, storageUpdates |-> storageUpdates,
        accountUpdates |-> accountUpdates, deleted |-> deleted, hashes |-> hashes,
        blockNr |-> blockNr]

db == [AT |-> dbAT, ST |-> dbST, hAT |-> hAT, hST |-> hST, noHistory |-> noHistory]

\* the storage trie with the rows m: key hash -> value
storageTrieOf(m) ==
  buildFrom({<<keybytesToHex(k), m[k]>> : k \in DOMAIN m}, Nil, 1)

\* the account trie with the accounts m: address hash -> account
accountTrieOf(m) ==
  buildFrom({<<keybytesToHex(h), rlpAccount(m[h])>> : h \in DOMAIN m}, Nil, 1)

\* the rows of the storage bucket below an address
storageRows(rows, address) ==
  [k \in {x[2] : x \in {y \in DOMAIN rows : y[1] = address}} |-> rows[<<address, k>>]]

RECURSIVE readAll(_, _, _)
\* the trie after TryGet of every key of `keys` in the block blockNr0
readAll(root, keys, blockNr0) ==
  IF keys = {} THEN root
  ELSE LET k == CHOOSE x \in keys : TRUE
       IN  readAll(tryGet1(root, keybytesToHex(k), 0, blockNr0).n, keys \ {k}, blockNr0)

\* the state committed at block 2: the bystanders, any of the other accounts,
\* and for any of those one storage slot.  The account trie was built in block
\* 1; the accounts of `recent` were read in block 2 and what is older has been
\* unloaded.
InitBlocks ==
  /\ \E present \in SUBSET Address :
       \E contracts \in SUBSET present, recent \in SUBSET present :
         LET slot == [k \in {HashKey(1)} |-> Bytes(1)]
             acc == [h \in {HashAddress(a) : a \in present \cup Bystanders} |->
                       IF h \in {HashAddress(a) : a \in Bystanders}
                       THEN Account(1, 0, emptyRoot, emptyCodeHash)
                       ELSE Account(0, 0,
                                    IF h \in {HashAddress(a) : a \in contracts}
                                    THEN hashRoot(storageTrieOf(slot)).hash
                                    ELSE emptyRoot,
                                    emptyCodeHash)]
             h == hashRoot(accountTrieOf(acc))
         IN  /\ t = UnloadOlderThan(
                      readAll(h.root, {HashAddress(a) : a \in recent}, 2), 2)
             /\ hashes = SaveHashes(<<>>, h.root, TRUE, 1)
             /\ dbAT = [x \in DOMAIN acc |-> accountToEncoding(acc[x])]
             /\ dbST = [c \in {<<a, HashKey(1)>> : a \in contracts} |-> Bytes(1)]
             /\ committed = [b \in {2} |-> h.hash]
  /\ storageTries = <<>>
  /\ storageUpdates = <<>>
  /\ accountUpdates = <<>>
  /\ deleted = {}
  /\ blockNr = 2
  /\ hAT = <<>>
  /\ hST = <<>>
  /\ journal = <<>>
  /\ phase = "idle"
  /\ last = NoOp
  /\ ops = 0
  /\ proofs = NoProofs

\* NewTrieDbState leaves noHistory off
Init == InitBlocks /\ noHistory = FALSE /\ AuxIdle

\* SetBlockNr at the start of the next block
BeginBlock ==
  /\ phase = "idle"
  /\ blockNr < MaxBlock
  /\ blockNr' = blockNr + 1
  /\ phase' = "executing"
  /\ journal' = <<>>
  /\ ops' = 0
  /\ last' = [op |-> "SetBlockNr", err |-> FALSE]
  /\ UNCHANGED <<auxVars, noHistory, proofs, t, tdsVars, dbVars, hashes, committed>>

\* ReadAccountStorage: the slot as the storage trie, or the bucket, has it
ReadAccountStorage(s, d, address, key, blockNr0) ==
  LET addrHash == HashAddress(address)
      got(g, r) == [value |-> r.value,
                    s |-> [g EXCEPT !.storageTries[addrHash] = r.root]]
      read(g) == got(g, TryGet(g.storageTries[addrHash], storageRows(d.ST, address),
                               HashKey(key), blockNr0))
  IN  read(getStorageTrie(s, d.AT, address, addrHash, TRUE, blockNr0))

\* the state object of an address: as the block left it, or as read
stateObject(address, read) ==
  IF address \in DOMAIN journal THEN journal[address]
  ELSE [original |-> IF read = NilAccount THEN NoOriginal ELSE read,
        account |-> read, storage |-> <<>>]

\* the block changes an account (creates it, or raises its nonce) and the
\* change is finalised into the trie writer
BlockUpdateAccount ==
  /\ phase = "executing"
  /\ ops < MaxWrites
  /\ \E address \in Address :
      \E r \in {ReadAccountData(t, dbAT, address, blockNr)} :
        LET so == stateObject(address, r.account)
            account == IF so.account = NilAccount
                       THEN Account(0, 0, emptyRoot, emptyCodeHash)
                       ELSE [so.account EXCEPT !.Nonce = @ + 1]
            b == TrieStateWriter_UpdateAccountData(tds, address, account)
        IN  /\ address \in DOMAIN journal => so.account # NilAccount
            /\ so.account # NilAccount => so.account.Nonce < MaxNonce
            /\ t' = IF address \in DOMAIN journal THEN t ELSE r.t
            /\ accountUpdates' = b.accountUpdates
            /\ journal' = Put(journal, address, [so EXCEPT !.account = account])
            /\ ops' = ops + 1
            /\ last' = [op |-> "UpdateAccountData", err |-> FALSE]
            /\ UNCHANGED <<auxVars, noHistory, proofs, storageTries, storageUpdates, deleted, blockNr, dbVars,
                           hashes, phase, committed>>

\* the block deletes an account that exists
BlockDeleteAccount ==
  /\ phase = "executing"
  /\ ops < MaxWrites
  /\ \E address \in Address :
      \E r \in {ReadAccountData(t, dbAT, address, blockNr)} :
        LET so == stateObject(address, r.account)
            b == TrieStateWriter_DeleteAccount(tds, address)
        IN  /\ so.account # NilAccount
            /\ t' = IF address \in DOMAIN journal THEN t ELSE r.t
            /\ accountUpdates' = b.accountUpdates
            /\ deleted' = b.deleted
            /\ journal' = Put(journal, address, [so EXCEPT !.account = NilAccount])
            /\ ops' = ops + 1
            /\ last' = [op |-> "DeleteAccount", err |-> FALSE]
            /\ UNCHANGED <<auxVars, noHistory, proofs, storageTries, storageUpdates, blockNr, dbVars, hashes,
                           phase, committed>>

\* the block writes a storage slot of an account that exists; the slot and the
\* account are finalised into the trie writer
BlockWriteStorage ==
  /\ phase = "executing"
  /\ ops < MaxWrites
  /\ \E address \in Address, key \in StorageKey, value \in 0 .. NumValues :
      \E r \in {ReadAccountData(t, dbAT, address, blockNr)} :
        LET so == stateObject(address, r.account)
            first == key \notin DOMAIN so.storage
            s0 == IF address \in DOMAIN journal THEN tds ELSE [tds EXCEPT !.t = r.t]
        IN  \E rd \in {IF first THEN ReadAccountStorage(s0, db, address, key, blockNr)
                       ELSE [value |-> Bytes(so.storage[key].original), s |-> s0]} :
              LET b == TrieStateWriter_UpdateAccountData(
                         TrieStateWriter_WriteAccountStorage(rd.s, address, key, value),
                         address, so.account)
              IN  /\ so.account # NilAccount
                  /\ t' = b.t
                  /\ storageTries' = b.storageTries
                  /\ storageUpdates' = b.storageUpdates
                  /\ accountUpdates' = b.accountUpdates
                  /\ journal' = Put(journal, address,
                                    [so EXCEPT !.storage =
                                       Put(@, key, [original |-> rd.value.v,
                                                    value |-> value])])
                  /\ ops' = ops + 1
                  /\ last' = [op |-> "WriteAccountStorage", err |-> FALSE]
                  /\ UNCHANGED <<auxVars, noHistory, proofs, deleted, blockNr, dbVars, hashes, phase, committed>>

\* TrieRoot at the end of the block; the maps are iterated in any order and
\* any call of the resolver may fail.  The accounts in the buffer are the
\* state objects' own, so they see the storage roots TrieRoot gave them.
DoTrieRoot ==
  /\ phase = "executing"
  /\ \E sord \in StorageOrders(storageUpdates), aord \in AccountOrders(accountUpdates),
       failAt \in 0 .. MaxFail :
      \E r \in {TrieRoot(tds, dbAT, sord, aord, failAt)} :
        /\ failAt > 0 => r.err /\ ~r.stuck
        /\ t' = r.s.t
        /\ storageTries' = r.s.storageTries
        /\ storageUpdates' = r.s.storageUpdates
        /\ accountUpdates' = r.s.accountUpdates
        /\ deleted' = r.s.deleted
        /\ hashes' = r.s.hashes
        /\ journal' = [a \in DOMAIN journal |->
                         IF HashAddress(a) \in DOMAIN r.accounts
                         THEN [journal[a] EXCEPT !.account = r.accounts[HashAddress(a)]]
                         ELSE journal[a]]
        /\ phase' = IF r.err THEN "failed" ELSE "rooted"
        /\ last' = [op |-> "TrieRoot", err |-> r.err, stuck |-> r.stuck, root |-> r.root]
        /\ UNCHANGED <<auxVars, noHistory, proofs, blockNr, dbVars, committed, ops>>

RECURSIVE commitStorage(_, _, _, _, _)
\* the dirty slots of one state object through the db writer
commitStorage(d, address, storage, keys, blockNr0) ==
  IF keys = {} THEN d
  ELSE LET k == CHOOSE x \in keys : TRUE
       IN  commitStorage(
             DbStateWriter_WriteAccountStorage(d, address, k, storage[k].original,
                                               storage[k].value, blockNr0),
             address, storage, keys \ {k}, blockNr0)

RECURSIVE commit(_, _, _, _)
\* the state objects of the block through the db writer
commit(d, j, addrs, blockNr0) ==
  IF addrs = {} THEN d
  ELSE LET a == CHOOSE x \in addrs : TRUE
       IN  commit(IF j[a].account = NilAccount
                  THEN DbStateWriter_DeleteAccount(d, a, j[a].original, blockNr0)
                  ELSE DbStateWriter_UpdateAccountData(
                         commitStorage(d, a, j[a].storage, DOMAIN j[a].storage, blockNr0),
                         a, j[a].original, j[a].account, blockNr0),
                  j, addrs \ {a}, blockNr0)

\* the block is committed through the db writer
CommitBlock ==
  /\ phase \in {"rooted", "replayed"}
  /\ \E d \in {commit(db, journal, DOMAIN journal, blockNr)} :
      /\ dbAT' = d.AT
      /\ dbST' = d.ST
      /\ hAT' = d.hAT
      /\ hST' = d.hST
      /\ committed' = [b \in (DOMAIN committed) \cup {blockNr} |->
                         IF b = blockNr THEN hashRoot(t).hash ELSE committed[b]]
      /\ journal' = <<>>
      /\ phase' = "idle"
      /\ last' = [op |-> "Commit", err |-> FALSE]
      /\ UNCHANGED <<auxVars, noHistory, proofs, t, tdsVars, blockNr, hashes, ops>>

\* UnwindTo an earlier block
DoUnwindTo ==
  /\ phase = "idle"
  /\ \E target \in {b \in DOMAIN committed : b < blockNr}, failAt \in 0 .. MaxFail :
      \E b \in {rewindBuffers(tds, db, target)} :
        \E sord \in StorageOrders(b.storageUpdates), aord \in AccountOrders(b.accountUpdates) :
          \E r \in {UnwindTo(tds, db, target, sord, aord, failAt)} :
            /\ failAt > 0 => r.err
            /\ t' = r.s.t
            /\ storageTries' = r.s.storageTries
            /\ storageUpdates' = r.s.storageUpdates
            /\ accountUpdates' = r.s.accountUpdates
            /\ deleted' = r.s.deleted
            /\ hashes' = r.s.hashes
            /\ blockNr' = r.s.blockNr
            /\ dbAT' = r.d.AT
            /\ dbST' = r.d.ST
            /\ hAT' = r.d.hAT
            /\ hST' = r.d.hST
            /\ phase' = IF r.err THEN "failed" ELSE "unwound"
            /\ last' = [op |-> "UnwindTo", err |-> r.err, from |-> blockNr]
            /\ UNCHANGED <<auxVars, noHistory, proofs, journal, committed, ops>>

RECURSIVE feedStorage(_, _, _, _)
\* the dirty slots of one state object through the verifier's writer
feedStorage(s, address, storage, keys) ==
  IF keys = {} THEN s
  ELSE LET k == CHOOSE x \in keys : TRUE
       IN  feedStorage(Stateless_WriteAccountStorage(s, address, k, storage[k].value),
                       address, storage, keys \ {k})

RECURSIVE feed(_, _, _)
\* the state objects of the block through the verifier's writer; the verifier
\* executes the block itself, so its accounts carry the storage roots read
feed(s, j, addrs) ==
  IF addrs = {} THEN s
  ELSE LET a == CHOOSE x \in addrs : TRUE
           account == [j[a].account EXCEPT
                         !.Root = IF j[a].original = NoOriginal THEN emptyRoot
                                  ELSE j[a].original.Root]
       IN  feed(IF j[a].account = NilAccount THEN Stateless_DeleteAccount(s, a)
                ELSE Stateless_UpdateAccountData(
                       feedStorage(s, a, j[a].storage, DOMAIN j[a].storage),
                       a, account),
                j, addrs \ {a})

\* the accounts of the state before the block, which the buckets still hold
preAccount(address) == encodingToAccount(Get(dbAT, HashAddress(address)))

\* the contracts whose storage the block writes
writtenContracts ==
  {a \in DOMAIN journal : /\ journal[a].account # NilAccount
                          /\ DOMAIN journal[a].storage # {}
                          /\ preAccount(a) # NilAccount
                          /\ preAccount(a).Root # emptyRoot}

\* the block is replayed on a verifier built from a witness of the state
\* before the block: for the account keys W and the storage of the contracts cs
StatelessReplay ==
  /\ phase = "rooted"
  /\ last.op = "TrieRoot"
  /\ \E W \in SUBSET (Address \cup Bystanders) :
      \E cs \in SUBSET {a \in W \cap Address : /\ preAccount(a) # NilAccount
                                              /\ preAccount(a).Root # emptyRoot} :
        \E v \in {NewStateless(
                    committed[blockNr - 1],
                    ExtractProofs(committed[blockNr - 1],
                                  {keybytesToHex(HashAddress(a)) : a \in W},
                                  ascending(cs),
                                  [a \in cs |-> preAccount(a).Root],
                                  {keybytesToHex(HashKey(k)) : k \in StorageKey}),
                    blockNr)} :
          \E r \in {IF v.err THEN [err |-> TRUE, unexpected |-> FALSE, root |-> ZeroHash]
                    ELSE CheckRoot(feed(v.s, journal, DOMAIN journal), last.root, TRUE)} :
            /\ phase' = "replayed"
            /\ last' = [op |-> "CheckRoot", err |-> r.err, built |-> ~v.err,
                        panic |-> v.panic, unexpected |-> r.unexpected,
                        covered |-> /\ DOMAIN journal \subseteq W
                                    /\ writtenContracts \subseteq cs
                                    /\ ~r.unexpected,
                        root |-> r.root, expected |-> last.root,
                        t |-> IF v.err THEN Nil ELSE v.s.t]
            /\ UNCHANGED <<auxVars, noHistory, proofs, t, tdsVars, blockNr, dbVars, hashes, journal, committed, ops>>

\* the roots a block header may claim: the root the full node computed, the
\* root before the block, and a root of no state
ClaimedRoots == {last.root, committed[blockNr - 1], ZeroHash}

\* CheckRoot(expected, true) on a verifier that NewStateless built and that was
\* fed the writes of the block, for the roots a header may claim
CheckRootReplay ==
  /\ phase = "rooted"
  /\ last.op = "TrieRoot"
  /\ \E W \in SUBSET (Address \cup Bystanders) :
      \E cs \in SUBSET {a \in W \cap Address : /\ preAccount(a) # NilAccount
                                              /\ preAccount(a).Root # emptyRoot} :
        \E v \in {NewStateless(
                    committed[blockNr - 1],
                    ExtractProofs(committed[blockNr - 1],
                                  {keybytesToHex(HashAddress(a)) : a \in W},
                                  ascending(cs),
                                  [a \in cs |-> preAccount(a).Root],
                                  {keybytesToHex(HashKey(k)) : k \in StorageKey}),
                    blockNr)} :
          /\ ~v.err
          /\ \E fed \in {feed(v.s, journal, DOMAIN journal)} :
              \E expected \in ClaimedRoots :
                \E r \in {CheckRoot(fed, expected, TRUE)} :
                  /\ phase' = "replayed"
                  /\ last' = [op |-> "CheckRootOnly", err |-> r.err,
                              unexpected |-> r.unexpected, root |-> r.root,
                              expected |-> expected, fed |-> fed, after |-> r.s]
                  /\ UNCHANGED <<auxVars, noHistory, proofs, t, tdsVars, blockNr, dbVars, hashes, journal,
                                 committed, ops>>

\* ----------------------------------------------------- altered witnesses
\* A witness that reaches the verifier is data from outside: the arrays of a
\* BlockProof with one element replaced, or with the last element missing.
ProofArrays ==
  {"Masks", "ShortKeys", "Values", "Hashes", "Contracts",
   "CMasks", "CShortKeys", "CValues", "CHashes"}

flipBit(m, b) == IF Bit(m, b) = 1 THEN m - Pow2(b) ELSE m + Pow2(b)

\* what an element x of the array f of P can be replaced with
otherElements(P, f, x) ==
  CASE f \in {"Masks", "CMasks"} ->
         {flipBit(x, b) : b \in (0 .. NumNibbles - 1) \cup (16 .. 15 + NumNibbles)}
    [] f \in {"ShortKeys", "CShortKeys"} ->
         (IF x[1] # Terminator THEN {[x EXCEPT ![1] = (@ + 1) % NumNibbles]} ELSE {})
           \cup (IF Len(x) > 1 THEN {Tail(x)} ELSE {})
    [] f \in {"Values", "CValues"} ->
         IF x.tag = "enc" THEN {[x EXCEPT !.Nonce = @ + 1]}
         ELSE {Bytes(v) : v \in (1 .. NumValues) \ {x.v}}
    [] f \in {"Hashes", "CHashes"} ->
         ({ZeroHash} \cup {P[f][i] : i \in 1 .. Len(P[f])}) \ {x}
    [] f = "Contracts" -> (Address \cup Bystanders) \ {x}

\* the witnesses that differ from P in one element of one array
alterations(P) ==
  UNION {UNION {{[array |-> f, kind |-> "element", proof |-> [P EXCEPT ![f][i] = x]] :
                   x \in otherElements(P, f, P[f][i])} :
                i \in 1 .. Len(P[f])} :
         f \in ProofArrays}

\* the witnesses that lack the last element of one array
truncations(P) ==
  {[array |-> f, kind |-> "truncated",
    proof |-> [P EXCEPT ![f] = SubSeq(@, 1, Len(@) - 1)]] :
     f \in {g \in ProofArrays : Len(P[g]) > 0}}

\* the root of the account trie rebuilt from P is not stateRoot
rootDiffers(stateRoot, P) ==
  LET differs(r) == ~r.idx.panic /\ hashRoot(r.n).hash # stateRoot
  IN  differs(NewFromProofs([masks |-> P.Masks, shortKeys |-> P.ShortKeys,
                             values |-> P.Values, hashes |-> P.Hashes], NoIdx))

RECURSIVE storageDiffersFrom(_, _, _, _)
\* the storage trie rebuilt for one of Contracts[i..] does not hash to the
\* storage root of its account in the account trie troot
storageDiffersFrom(P, i, idx, troot) ==
  IF i > Len(P.Contracts) THEN FALSE
  ELSE LET differs(st, acc) ==
             IF st.idx.panic \/ acc = NilAccount THEN FALSE
             ELSE acc.Root # hashRoot(st.n).hash
                    \/ storageDiffersFrom(P, i + 1, st.idx, troot)
       IN  differs(NewFromProofs([masks |-> P.CMasks, shortKeys |-> P.CShortKeys,
                                  values |-> P.CValues, hashes |-> P.CHashes], idx),
                   encodingToAccount(
                     TryGet(troot, <<>>, HashAddress(P.Contracts[i]), 0).value))

storageDiffers(P) ==
  LET from(r) == ~r.idx.panic /\ storageDiffersFrom(P, 1, NoIdx, hashRoot(r.n).root)
  IN  from(NewFromProofs([masks |-> P.Masks, shortKeys |-> P.ShortKeys,
                          values |-> P.Values, hashes |-> P.Hashes], NoIdx))

\* the verifier on the block: NewStateless, the block's writes, CheckRoot
replay(stateRoot, P, j, expected, blockNr0) ==
  LET checked(v, r) ==
        [built |-> ~v.err, panic |-> v.panic, err |-> v.err \/ r.err,
         unexpected |-> r.unexpected, root |-> r.root]
      built(v) ==
        checked(v, IF v.err THEN [err |-> TRUE, unexpected |-> FALSE, root |-> ZeroHash]
                   ELSE CheckRoot(feed(v.s, j, DOMAIN j), expected, TRUE))
  IN  built(NewStateless(stateRoot, P, blockNr0))

\* the block is replayed on a verifier built from an altered copy of a
\* witness that the verifier accepts and that replays to the expected root
TamperedReplay ==
  /\ phase = "rooted"
  /\ last.op = "TrieRoot"
  /\ \E W \in SUBSET (Address \cup Bystanders) :
      \E cs \in SUBSET {a \in W \cap Address : /\ preAccount(a) # NilAccount
                                              /\ preAccount(a).Root # emptyRoot} :
        \E P \in {ExtractProofs(committed[blockNr - 1],
                                {keybytesToHex(HashAddress(a)) : a \in W},
                                ascending(cs),
                                [a \in cs |-> preAccount(a).Root],
                                {keybytesToHex(HashKey(k)) : k \in StorageKey})} :
          /\ ~replay(committed[blockNr - 1], P, journal, last.root, blockNr).err
          /\ \E Q \in alterations(P) \cup truncations(P) :
               \E r \in {replay(committed[blockNr - 1], Q.proof, journal, last.root,
                                blockNr)} :
                 /\ phase' = "replayed"
                 /\ last' = [op |-> "Tampered", array |-> Q.array, kind |-> Q.kind,
                             built |-> r.built, panic |-> r.panic, err |-> r.err,
                             unexpected |-> r.unexpected,
                             rootDiffers |-> rootDiffers(committed[blockNr - 1], Q.proof),
                             storageDiffers |-> storageDiffers(Q.proof)]
                 /\ UNCHANGED <<auxVars, noHistory, proofs, t, tdsVars, blockNr, dbVars, hashes, journal,
                                committed, ops>>

Next ==
  \/ BeginBlock
  \/ BlockUpdateAccount
  \/ BlockDeleteAccount
  \/ BlockWriteStorage
  \/ DoTrieRoot
  \/ StatelessReplay
  \/ CommitBlock
  \/ DoUnwindTo

Spec == Init /\ [][Next]_vars

\* the verifier on witnesses from outside: the blocks of the full node, each
\* replayed on an altered witness
NextTampered ==
  \/ BeginBlock
  \/ BlockUpdateAccount
  \/ BlockDeleteAccount
  \/ BlockWriteStorage
  \/ DoTrieRoot
  \/ TamperedReplay

SpecTampered == Init /\ [][NextTampered]_vars

\* the verifier against the roots a header may claim
NextCheckRoot ==
  \/ BeginBlock
  \/ BlockUpdateAccount
  \/ BlockDeleteAccount
  \/ BlockWriteStorage
  \/ DoTrieRoot
  \/ CheckRootReplay
  \/ CommitBlock

SpecCheckRoot == Init /\ [][NextCheckRoot]_vars

\* the blocks committed through the db writer, with the history on or off
\* (SetNoHistory is called before the first block)
InitHistory == InitBlocks /\ noHistory \in BOOLEAN /\ AuxIdle

NextHistory ==
  \/ BeginBlock
  \/ BlockUpdateAccount
  \/ BlockDeleteAccount
  \/ BlockWriteStorage
  \/ DoTrieRoot
  \/ CommitBlock

SpecHistory == InitHistory /\ [][NextHistory]_vars

\* a byte string that is not the encoding of an account (rlp.DecodeBytes fails)
Undecodable == Bytes(1)

\* encodingToAccount returns an error
decodeFails(enc) == ~isEmpty(enc) /\ enc.tag # "enc"

\* an entry of the accounts log is damaged in the store
HistoryDamaged ==
  /\ phase = "idle"
  /\ \E e \in DOMAIN hAT :
       /\ ~decodeFails(hAT[e])
       /\ hAT' = Put(hAT, e, Undecodable)
  /\ last' = [op |-> "Damage", err |-> FALSE]
  /\ UNCHANGED <<auxVars, noHistory, proofs, t, tdsVars, blockNr, dbAT, dbST, hST, hashes, journal,
                 phase, committed, ops>>

\* the blocks, committed and unwound, over a log that may be damaged
NextDamaged ==
  \/ BeginBlock
  \/ BlockUpdateAccount
  \/ BlockDeleteAccount
  \/ BlockWriteStorage
  \/ DoTrieRoot
  \/ CommitBlock
  \/ HistoryDamaged
  \/ DoUnwindTo

SpecDamaged == Init /\ [][NextDamaged]_vars

\* SetBlockNr at the start of a block, one block further than BeginBlock goes
BeginLaterBlock ==
  /\ phase = "idle"
  /\ blockNr <= MaxBlock
  /\ blockNr' = blockNr + 1
  /\ phase' = "executing"
  /\ journal' = <<>>
  /\ ops' = 0
  /\ last' = [op |-> "SetBlockNr", err |-> FALSE]
  /\ UNCHANGED <<auxVars, noHistory, proofs, t, tdsVars, dbVars, hashes, committed>>

\* two blocks of slot writes (each changes a slot and the root of its
\* account), committed and unwound
NextUnwind ==
  \/ BeginLaterBlock
  \/ BlockWriteStorage
  \/ DoTrieRoot
  \/ CommitBlock
  \/ DoUnwindTo

SpecUnwind == Init /\ [][NextUnwind]_vars

\* ------------------------------------------------ the rewind on its own
\* The history buckets filled by PutS with any key at any block, as the tests
\* of rewindData fill them, and rewindData between any two blocks.
MaxPuts == 4

InitRewind ==
  /\ t = Nil
  /\ hashes = <<>>
  /\ dbAT = <<>>
  /\ storageTries = <<>>
  /\ storageUpdates = <<>>
  /\ accountUpdates = <<>>
  /\ deleted = {}
  /\ blockNr = 0
  /\ dbST = <<>>
  /\ hAT = <<>>
  /\ hST = <<>>
  /\ journal = <<>>
  /\ phase = "rewind"
  /\ committed = <<>>
  /\ last = NoOp
  /\ ops = 0
  /\ proofs = NoProofs
  /\ noHistory = FALSE
  /\ AuxIdle

\* batch.PutS(hbucket, key, value, timestamp) on the accounts log
LogAccountPutS ==
  /\ phase = "rewind"
  /\ Cardinality(DOMAIN hAT) + Cardinality(DOMAIN hST) < MaxPuts
  /\ \E a \in Address, timestamp \in 1 .. MaxBlock :
       hAT' = PutS(hAT, HashAddress(a), Bytes(1), timestamp)
  /\ last' = [op |-> "PutS", err |-> FALSE]
  /\ UNCHANGED <<auxVars, noHistory, proofs, t, tdsVars, dbAT, dbST, hST, blockNr, hashes,
                 journal, phase, committed, ops>>

\* batch.PutS(hbucket, key, value, timestamp) on the storage log
LogStoragePutS ==
  /\ phase = "rewind"
  /\ Cardinality(DOMAIN hAT) + Cardinality(DOMAIN hST) < MaxPuts
  /\ \E a \in Address, k \in StorageKey, timestamp \in 1 .. MaxBlock :
       hST' = PutS(hST, <<a, HashKey(k)>>, Bytes(1), timestamp)
  /\ last' = [op |-> "PutS", err |-> FALSE]
  /\ UNCHANGED <<auxVars, noHistory, proofs, t, tdsVars, dbAT, dbST, hAT, blockNr, hashes,
                 journal, phase, committed, ops>>

\* rewindData(db, src, dst, df) with a df that records its calls
DoRewindData ==
  /\ phase = "rewind"
  /\ \E src \in 0 .. MaxBlock, dst \in 0 .. MaxBlock :
       \E rows \in {suffixRows(hAT, hST, 0, MaxBlock)} :
         \E order \in bucketOrders(rewindBuckets(rows, src, dst)) :
           last' = [op |-> "rewindData", err |-> FALSE, src |-> src, dst |-> dst,
                    calls |-> rewindCalls(rows, src, dst, order)]
  /\ UNCHANGED <<auxVars, noHistory, proofs, t, tdsVars, dbVars, blockNr, hashes, journal,
                 phase, committed, ops>>

NextRewind ==
  \/ LogAccountPutS
  \/ LogStoragePutS
  \/ DoRewindData

SpecRewind == InitRewind /\ [][NextRewind]_vars

\* ------------------------------------------------- generations and pruning
\* MaxTrieCacheGen is 4*1024*1024 in the source; the model keeps a cap that the
\* tries over InitKeys exceed.
MaxTrieCacheGen == 2
MaxNodes == 6
\* the width of a generation number: gen++ wraps to 0 after GenWidth - 1
GenWidth == MaxGen + 2

countOf(counts, gen) == IF gen \in DOMAIN counts THEN counts[gen] ELSE 0

RECURSIVE countNodes(_)
\* countNodes: the number of Short, Duo and Full nodes below n by generation
countNodes(n) ==
  LET add(m1, m2) ==
        [g \in (DOMAIN m1) \cup (DOMAIN m2) |-> countOf(m1, g) + countOf(m2, g)]
      one(g) == [x \in {g} |-> 1]
      RECURSIVE sum(_, _)
      sum(ch, I) ==
        IF I = {} THEN <<>>
        ELSE LET i == CHOOSE x \in I : TRUE
             IN  add(countNodes(ch[i]), sum(ch, I \ {i}))
  IN  CASE n.tag = "short" -> add(countNodes(n.Val), one(n.t))
        [] n.tag = "duo" ->
             add(add(countNodes(n.child1), countNodes(n.child2)), one(n.t))
        [] n.tag = "full" -> add(sum(n.Children, NonNilIdx(n.Children)), one(n.t))
        [] OTHER -> <<>>

RECURSIVE total(_, _)
total(counts, G) ==
  IF G = {} THEN 0
  ELSE LET g == CHOOSE x \in G : TRUE IN counts[g] + total(counts, G \ {g})

\* the bookkeeping of a TrieDbState: g = [nodeCount, generationCounts,
\* oldestGeneration]
joinGeneration(g, gen) ==
  [g EXCEPT !.nodeCount = @ + 1,
            !.generationCounts = Put(@, gen, countOf(@, gen) + 1)]

leftGeneration(g, gen) ==
  [g EXCEPT !.nodeCount = @ - 1,
            !.generationCounts = Put(@, gen, countOf(@, gen) - 1)]

\* a loop over the generations that ends after the oldest one
pruneOldest(excess, toRemove, counts, gen, steps) ==
  [returned |-> TRUE, toRemove |-> toRemove + countOf(counts, gen),
   counts |-> Delete(counts, gen), gen |-> (gen + 1) % GenWidth]

RECURSIVE pruneLoop(_, _, _, _, _)
\* the loop `for excess > 0` of PruneTries; it does not return when no
\* generation is left to bring the excess down
pruneLoop(excess, toRemove, counts, gen, steps) ==
  IF excess <= 0
  THEN [returned |-> TRUE, toRemove |-> toRemove, counts |-> counts, gen |-> gen]
  ELSE IF steps = 0
  THEN [returned |-> FALSE, toRemove |-> toRemove, counts |-> counts, gen |-> gen]
  ELSE pruneLoop(excess - countOf(counts, gen), toRemove + countOf(counts, gen),
                 Delete(counts, gen), (gen + 1) % GenWidth, steps - 1)

\* the storage tries PruneTries keeps: the ones whose root was not unloaded
pruneStorageTries(tries, gen) ==
  LET unloaded(a) == /\ tries[a].tag \in {"short", "duo", "full"}
                     /\ UnloadOlderThan(tries[a], gen).tag = "hash"
  IN  [a \in {x \in DOMAIN tries : ~unloaded(x)} |-> UnloadOlderThan(tries[a], gen)]

\* PruneTries on s = [t, storageTries, nodeCount, generationCounts,
\* oldestGeneration]
PruneTries(s) ==
  IF s.nodeCount > MaxTrieCacheGen
  THEN LET l == pruneLoop(s.nodeCount - MaxTrieCacheGen, 0, s.generationCounts,
                          s.oldestGeneration, GenWidth)
       IN  [returned |-> l.returned,
            t |-> UnloadOlderThan(s.t, l.gen),
            storageTries |-> pruneStorageTries(s.storageTries, l.gen),
            nodeCount |-> s.nodeCount - l.toRemove,
            generationCounts |-> l.counts,
            oldestGeneration |-> l.gen]
  ELSE [returned |-> TRUE, t |-> s.t, storageTries |-> s.storageTries,
        nodeCount |-> s.nodeCount, generationCounts |-> s.generationCounts,
        oldestGeneration |-> s.oldestGeneration]

\* a TrieDbState created at block 1 over a trie of that block, its nodes
\* counted in their generation
InitPrune ==
  /\ \E pairs \in InitContents :
       LET h == hashRoot(buildFrom(pairs, Nil, 1))
       IN  /\ t = h.root
           /\ hashes = SaveHashes(<<>>, h.root, TRUE, 1)
           /\ generationCounts = countNodes(h.root)
           /\ nodeCount = total(countNodes(h.root), DOMAIN countNodes(h.root))
  /\ oldestGeneration = 1
  /\ storageTries = <<>>
  /\ storageUpdates = <<>>
  /\ accountUpdates = <<>>
  /\ deleted = {}
  /\ blockNr = 1
  /\ dbAT = <<>>
  /\ dbST = <<>>
  /\ hAT = <<>>
  /\ hST = <<>>
  /\ journal = <<>>
  /\ phase = "prune"
  /\ committed = <<>>
  /\ last = NoOp
  /\ ops = 0
  /\ proofs = NoProofs
  /\ noHistory = FALSE
  /\ poolIdle
  /\ driverIdle
  /\ resolverIdle

gens == [nodeCount |-> nodeCount, generationCounts |-> generationCounts,
         oldestGeneration |-> oldestGeneration]

\* the trie creates a node in the current block
NodeJoins ==
  /\ phase = "prune"
  /\ nodeCount < MaxNodes
  /\ \E g \in {joinGeneration(gens, blockNr)} :
       /\ nodeCount' = g.nodeCount
       /\ generationCounts' = g.generationCounts
  /\ last' = [op |-> "joinGeneration", err |-> FALSE]
  /\ UNCHANGED <<oldestGeneration, poolVars, driverVars, resolver, noHistory, proofs, t, tdsVars,
                 dbVars, blockNr, hashes, journal, phase, committed, ops>>

\* the trie drops a node: one counted in its generation, or one of a
\* generation pruned before that the unloading left in the trie
NodeLeaves ==
  /\ phase = "prune"
  /\ nodeCount > 0
  /\ \E gen \in 1 .. blockNr :
       /\ \/ countOf(generationCounts, gen) > 0
          \/ gen < oldestGeneration /\ countOf(generationCounts, gen) = 0
       /\ \E g \in {leftGeneration(gens, gen)} :
            /\ nodeCount' = g.nodeCount
            /\ generationCounts' = g.generationCounts
  /\ last' = [op |-> "leftGeneration", err |-> FALSE]
  /\ UNCHANGED <<oldestGeneration, poolVars, driverVars, resolver, noHistory, proofs, t, tdsVars,
                 dbVars, blockNr, hashes, journal, phase, committed, ops>>

DoPruneTries ==
  /\ phase = "prune"
  /\ \E r \in {PruneTries([t |-> t, storageTries |-> storageTries,
                           nodeCount |-> nodeCount,
                           generationCounts |-> generationCounts,
                           oldestGeneration |-> oldestGeneration])} :
       /\ r.returned
       /\ t' = r.t
       /\ storageTries' = r.storageTries
       /\ nodeCount' = r.nodeCount
       /\ generationCounts' = r.generationCounts
       /\ oldestGeneration' = r.oldestGeneration
  /\ last' = [op |-> "PruneTries", err |-> FALSE, before |-> nodeCount]
  /\ UNCHANGED <<poolVars, driverVars, resolver, noHistory, proofs, storageUpdates,
                 accountUpdates, deleted, dbVars, blockNr, hashes, journal, phase,
                 committed, ops>>

NextPrune ==
  \/ TrieSetBlockNr
  \/ NodeJoins
  \/ NodeLeaves
  \/ DoPruneTries

SpecPrune == InitPrune /\ [][NextPrune]_vars

\* ------------------------------------------------- tries of short values
\* A trie over InitKeys whose values are words or one-byte strings, built in
\* block 1 and then hashed or left dirty; reads in a later block refresh the
\* timestamps of one path, and the unloading meets nodes of every age.
InitEmbedded ==
  /\ \E K \in SUBSET InitKeys, wasHashed \in BOOLEAN :
       \E v \in [K -> {ShortValue, Bytes(1)}] :
         LET built == buildFrom({<<keybytesToHex(k), v[k]>> : k \in K}, Nil, 1)
         IN  t = IF wasHashed THEN hashRoot(built).root ELSE built
  /\ hashes = <<>>
  /\ storageTries = <<>>
  /\ storageUpdates = <<>>
  /\ accountUpdates = <<>>
  /\ deleted = {}
  /\ blockNr = 1
  /\ dbAT = <<>>
  /\ dbST = <<>>
  /\ hAT = <<>>
  /\ hST = <<>>
  /\ journal = <<>>
  /\ phase = "trie"
  /\ committed = <<>>
  /\ last = NoOp
  /\ ops = 0
  /\ proofs = NoProofs
  /\ noHistory = FALSE
  /\ AuxIdle

NextEmbedded == TrieSetBlockNr \/ TrieGet \/ TrieUnload

SpecEmbedded == InitEmbedded /\ [][NextEmbedded]_vars

\* ------------------------------------------------------ the hasher pool
\* hasherPool is a channel of capacity 128 in the source; the model keeps a
\* capacity that the goroutines can fill.
PoolCap == 2
NumGoroutines == 3
MaxHashers == 4
Goroutine == 1 .. NumGoroutines
NoHasher == 0

\* newHasher: the select takes a hasher from the channel when it holds one,
\* and makes the hasher `fresh` when it does not
newHasher(pool, fresh) ==
  IF pool # <<>>
  THEN [h |-> Head(pool), pool |-> Tail(pool), made |-> FALSE, blocked |-> FALSE]
  ELSE [h |-> fresh, pool |-> pool, made |-> TRUE, blocked |-> FALSE]

\* a send to the channel whatever it holds
sendToFullPool(pool, h) == [pool |-> Append(pool, h), blocked |-> FALSE]

\* returnHasherToPool: the select sends the hasher to the channel when it has
\* room, and lets go of the hasher when it has none
returnHasherToPool(pool, h) ==
  IF Len(pool) < PoolCap
  THEN [pool |-> Append(pool, h), blocked |-> FALSE]
  ELSE [pool |-> pool, blocked |-> FALSE]

InitPool ==
  /\ hasherPool = <<>>
  /\ holding = [g \in Goroutine |-> [pc |-> "idle", h |-> NoHasher]]
  /\ created = 0
  /\ t = Nil
  /\ hashes = <<>>
  /\ storageTries = <<>>
  /\ storageUpdates = <<>>
  /\ accountUpdates = <<>>
  /\ deleted = {}
  /\ blockNr = 0
  /\ dbAT = <<>>
  /\ dbST = <<>>
  /\ hAT = <<>>
  /\ hST = <<>>
  /\ journal = <<>>
  /\ phase = "pool"
  /\ committed = <<>>
  /\ last = NoOp
  /\ ops = 0
  /\ proofs = NoProofs
  /\ noHistory = FALSE
  /\ genIdle
  /\ driverIdle
  /\ resolverIdle

\* goroutine g calls newHasher
TakeHasher(g) ==
  /\ holding[g].pc = "idle"
  /\ hasherPool # <<>> \/ created < MaxHashers
  /\ \E r \in {newHasher(hasherPool, created + 1)} :
       /\ hasherPool' = r.pool
       /\ created' = IF r.made THEN created + 1 ELSE created
       /\ holding' = [holding EXCEPT
                        ![g] = [pc |-> IF r.blocked THEN "blocked" ELSE "holding",
                                h |-> r.h]]
       /\ last' = [op |-> "newHasher", err |-> FALSE, made |-> r.made]
  /\ UNCHANGED <<genVars, driverVars, resolver, noHistory, proofs, t, tdsVars, dbVars, blockNr,
                 hashes, journal, phase, committed, ops>>

\* goroutine g gives its hasher back with returnHasherToPool
GiveHasherBack(g) ==
  /\ holding[g].pc = "holding"
  /\ \E r \in {returnHasherToPool(hasherPool, holding[g].h)} :
       /\ hasherPool' = r.pool
       /\ holding' = [holding EXCEPT
                        ![g] = IF r.blocked THEN [pc |-> "blocked", h |-> @.h]
                               ELSE [pc |-> "idle", h |-> NoHasher]]
       /\ last' = [op |-> "returnHasherToPool", err |-> FALSE,
                   dropped |-> r.pool = hasherPool]
  /\ UNCHANGED <<created, genVars, driverVars, resolver, noHistory, proofs, t, tdsVars, dbVars,
                 blockNr, hashes, journal, phase, committed, ops>>

NextPool ==
  \/ \E g \in Goroutine : TakeHasher(g)
  \/ \E g \in Goroutine : GiveHasherBack(g)

SpecPool == InitPool /\ [][NextPool]_vars

\* ------------------------------------------------- the block-replay driver
\* stateless(): the loop over the blocks of the chain, the goroutine that
\* forwards a signal from sigs to interruptCh, and the signals of the
\* operating system.  The loop stops at block 200000 in the source, at StopAt
\* here.
MaxChain == 4
StopAt == 5
MaxSignals == 2

NotBegun == [signals |-> 0, sinceSignal |-> 0, forwarded |-> FALSE, sinceForward |-> 0]

InitDriver ==
  /\ sigs = 0
  /\ interruptCh = 0
  /\ forwarder = "waiting"
  /\ interrupt = FALSE
  /\ blockNum = 1
  /\ driverPc = "head"
  /\ chain \in 1 .. MaxChain
  /\ begun = NotBegun
  /\ t = Nil
  /\ hashes = <<>>
  /\ storageTries = <<>>
  /\ storageUpdates = <<>>
  /\ accountUpdates = <<>>
  /\ deleted = {}
  /\ blockNr = 0
  /\ dbAT = <<>>
  /\ dbST = <<>>
  /\ hAT = <<>>
  /\ hST = <<>>
  /\ journal = <<>>
  /\ phase = "driver"
  /\ committed = <<>>
  /\ last = NoOp
  /\ ops = 0
  /\ proofs = NoProofs
  /\ noHistory = TRUE
  /\ genIdle
  /\ poolIdle
  /\ resolverIdle

driverRest ==
  <<genVars, poolVars, resolver, noHistory, proofs, t, tdsVars, dbVars, blockNr, hashes, journal,
    phase, committed, last, ops, chain>>

\* SIGINT or SIGTERM arrives: the signal package sends it to sigs without
\* blocking, so it is lost when the buffer of sigs is full
SignalArrives ==
  /\ phase = "driver"
  /\ begun.signals < MaxSignals
  /\ sigs' = IF sigs < 1 THEN sigs + 1 ELSE sigs
  /\ begun' = [begun EXCEPT !.signals = @ + 1]
  /\ UNCHANGED <<interruptCh, forwarder, interrupt, blockNum, driverPc, driverRest>>

\* the goroutine: <-sigs
ForwarderReceives ==
  /\ forwarder = "waiting"
  /\ sigs > 0
  /\ sigs' = sigs - 1
  /\ forwarder' = "sending"
  /\ UNCHANGED <<interruptCh, interrupt, blockNum, driverPc, begun, driverRest>>

\* the goroutine: interruptCh <- true
ForwarderSends ==
  /\ forwarder = "sending"
  /\ interruptCh < 1
  /\ interruptCh' = interruptCh + 1
  /\ forwarder' = "done"
  /\ begun' = [begun EXCEPT !.forwarded = TRUE]
  /\ UNCHANGED <<sigs, interrupt, blockNum, driverPc, driverRest>>

\* for !interrupt
DriverHead ==
  /\ driverPc = "head"
  /\ driverPc' = IF interrupt THEN "exit" ELSE "fetch"
  /\ UNCHANGED <<sigs, interruptCh, forwarder, interrupt, blockNum, begun, driverRest>>

\* block := bcb.GetBlockByNumber(blockNum); if block == nil { break }
DriverFetch ==
  /\ driverPc = "fetch"
  /\ IF blockNum > chain
     THEN /\ driverPc' = "exit"
          /\ begun' = begun
     ELSE /\ driverPc' = "insert"
          /\ begun' = [begun EXCEPT
                         !.sinceSignal = IF begun.signals > 0 THEN @ + 1 ELSE @,
                         !.sinceForward = IF begun.forwarded THEN @ + 1 ELSE @]
  /\ UNCHANGED <<sigs, interruptCh, forwarder, interrupt, blockNum, driverRest>>

\* bc.InsertChain and ExtractProofs; an error of InsertChain panics
DriverInsert ==
  /\ driverPc = "insert"
  /\ \E ok \in BOOLEAN : driverPc' = IF ok THEN "replay" ELSE "panicked"
  /\ UNCHANGED <<sigs, interruptCh, forwarder, interrupt, blockNum, begun, driverRest>>

\* NewStateless, the transactions, Finalize, Commit and CheckRoot; an error of
\* any of them panics
DriverReplay ==
  /\ driverPc = "replay"
  /\ \E ok \in BOOLEAN : driverPc' = IF ok THEN "count" ELSE "panicked"
  /\ UNCHANGED <<sigs, interruptCh, forwarder, interrupt, blockNum, begun, driverRest>>

\* blockNum++; if blockNum == 200000 { break }
DriverCount ==
  /\ driverPc = "count"
  /\ blockNum' = blockNum + 1
  /\ driverPc' = IF blockNum + 1 = StopAt THEN "exit" ELSE "select"
  /\ UNCHANGED <<sigs, interruptCh, forwarder, interrupt, begun, driverRest>>

\* a select that takes the default case whatever interruptCh holds
DriverSelectDefault ==
  /\ driverPc = "select"
  /\ driverPc' = "head"
  /\ UNCHANGED <<interrupt, interruptCh, sigs, forwarder, blockNum, begun, driverRest>>

\* select { case interrupt = <-interruptCh: ... default: }
DriverSelect ==
  /\ driverPc = "select"
  /\ IF interruptCh > 0
     THEN /\ interrupt' = TRUE
          /\ interruptCh' = interruptCh - 1
     ELSE UNCHANGED <<interrupt, interruptCh>>
  /\ driverPc' = "head"
  /\ UNCHANGED <<sigs, forwarder, blockNum, begun, driverRest>>

\* the statements after the loop
DriverExit ==
  /\ driverPc = "exit"
  /\ driverPc' = "done"
  /\ UNCHANGED <<sigs, interruptCh, forwarder, interrupt, blockNum, begun, driverRest>>

DriverStep ==
  \/ DriverHead
  \/ DriverFetch
  \/ DriverInsert
  \/ DriverReplay
  \/ DriverCount
  \/ DriverSelect
  \/ DriverExit

ForwarderStep == ForwarderReceives \/ ForwarderSends

NextDriver ==
  \/ SignalArrives
  \/ ForwarderReceives
  \/ ForwarderSends
  \/ DriverHead
  \/ DriverFetch
  \/ DriverInsert
  \/ DriverReplay
  \/ DriverCount
  \/ DriverSelect
  \/ DriverExit

\* the driver and the forwarding goroutine keep running while they can
SpecDriver ==
  InitDriver /\ [][NextDriver]_vars /\ WF_vars(DriverStep) /\ WF_vars(ForwarderStep)

\* ------------------------------------------------------ deletes on a trie
\* A resolved trie over InitKeys and up to MaxDeletes deletes, each recorded
\* with the trie it was applied to.
MaxDeletes == 2

DeleteKey ==
  \E k \in KeyBytes :
    \E r \in {TryDelete(t, hashes, TRUE, k, blockNr, 0)} :
      /\ phase = "trie"
      /\ ops < MaxDeletes
      /\ ~last.err
      /\ t' = r.root
      /\ hashes' = r.tbl
      /\ last' = [op |-> "delete", key |-> k, err |-> r.err, before |-> t]
      /\ ops' = ops + 1
      /\ UNCHANGED <<auxVars, noHistory, proofs, tdsVars, dbVars, blockNr, journal, phase,
                     committed>>

SetBlockNrBetweenDeletes ==
  /\ blockNr < MaxGen
  /\ blockNr' = blockNr + 1
  /\ last' = NoOp
  /\ UNCHANGED <<auxVars, noHistory, proofs, t, tdsVars, dbVars, hashes, journal, phase,
                 committed, ops>>

NextDelete == DeleteKey \/ SetBlockNrBetweenDeletes

SpecDelete == InitTrie /\ [][NextDelete]_vars

\* ------------------------------------------- dirty flags of a trie in use
\* A trie that is read, unloaded, changed by continuations driven to their end
\* (as TryDelete and the pass loop of trieRoot drive them, without hashing)
\* and hashed from time to time.
MaxRuns == 2

ContinuationRuns ==
  /\ phase = "trie"
  /\ ops < MaxRuns
  /\ ~last.err
  /\ \E k \in KeyBytes, v \in Value \cup {NoBytes}, fail \in BOOLEAN :
       \E r \in {runToEnd(UpdateAction(k, v), t, hashes, TRUE, blockNr, 0,
                          IF fail THEN 1 ELSE 0)} :
         /\ fail => r.err
         /\ t' = r.root
         /\ hashes' = r.tbl
         /\ last' = [op |-> "run", key |-> k, value |-> v, err |-> r.err,
                     changed |-> hashRoot(r.root).hash # hashRoot(t).hash]
         /\ ops' = ops + 1
         /\ UNCHANGED <<auxVars, noHistory, proofs, tdsVars, dbVars, blockNr, journal,
                        phase, committed>>

\* Trie.Hash between two runs
TrieHash ==
  /\ phase = "trie"
  /\ ops > 0
  /\ ~last.err
  /\ hashRoot(t).root # t
  /\ t' = hashRoot(t).root
  /\ last' = NoOp
  /\ UNCHANGED <<auxVars, noHistory, proofs, tdsVars, dbVars, blockNr, hashes, journal,
                 phase, committed, ops>>

NextDirty ==
  TrieSetBlockNr \/ TrieGet \/ TrieUnload \/ ContinuationRuns \/ TrieHash

SpecDirty == InitTrie /\ [][NextDirty]_vars

\* ----------------------------------------- unloading after a lower block
\* The block number of the trie operations is what the caller passes:
\* TrieDbState.SetBlockNr stores any number and UnwindTo stores a lower one, so
\* a path read after an unwind carries an older timestamp than what hangs
\* below it.
SetBlockNrTo ==
  /\ phase = "trie"
  /\ ops = 0
  /\ \E nr \in 1 .. MaxGen :
       /\ nr # blockNr
       /\ blockNr' = nr
  /\ last' = NoOp
  /\ UNCHANGED <<auxVars, noHistory, proofs, t, tdsVars, dbVars, hashes, journal, phase,
                 committed, ops>>

\* one unloading, recorded with the trie it met
UnloadRecorded ==
  /\ phase = "trie"
  /\ ops = 0
  /\ \E gen \in 2 .. MaxGen :
       /\ t' = UnloadOlderThan(t, gen)
       /\ last' = [op |-> "unload", err |-> FALSE, gen |-> gen, before |-> t]
  /\ ops' = 1
  /\ UNCHANGED <<auxVars, noHistory, proofs, tdsVars, dbVars, blockNr, hashes, journal,
                 phase, committed>>

NextUnload == SetBlockNrTo \/ TrieGet \/ UnloadRecorded

SpecUnload == InitEmbedded /\ [][NextUnload]_vars

\* ------------------------------- a resolver and the walks it prepares
MaxAdded == 3

\* number of bytes of a start key: two nibbles to the byte
StartKeyLen == (KeyLen + 1) \div 2

RECURSIVE decodeNibbles(_, _)
\* decodeNibbles(nibbles, bytes): bytes is zero on entry; two nibbles fill a
\* byte, a last single nibble fills the high half of its byte
decodeNibbles(nibbles, width) ==
  IF width = 0 THEN <<>>
  ELSE <<(IF Len(nibbles) >= 1 THEN nibbles[1] * 16 ELSE 0)
           + (IF Len(nibbles) >= 2 THEN nibbles[2] ELSE 0)>>
         \o decodeNibbles(IF Len(nibbles) >= 2 THEN SubSeq(nibbles, 3, Len(nibbles))
                          ELSE <<>>,
                          width - 1)

RECURSIVE insertHex(_, _)
insertHex(sorted, h) ==
  IF sorted = <<>> THEN <<h>>
  ELSE IF SeqLess(h, Head(sorted)) THEN <<h>> \o sorted
  ELSE <<Head(sorted)>> \o insertHex(Tail(sorted), h)

RECURSIVE sortHexes(_)
\* sort.Sort(tr.resolveHexes), ResolveHexes.Less being bytes.Compare < 0
sortHexes(hexes) ==
  IF hexes = <<>> THEN <<>> ELSE insertHex(sortHexes(Tail(hexes)), Head(hexes))

\* the hexes that are not a prefix of the one that follows them
newHexes(hexes) ==
  SelectSeq([i \in DOMAIN hexes |-> [h |-> hexes[i],
                                     keep |-> \/ i = Len(hexes)
                                              \/ ~HasPrefix(hexes[i + 1], hexes[i])]],
            LAMBDA x : x.keep)

NewResolver ==
  [continuations |-> <<>>, resolveHexes |-> <<>>, contIndices |-> <<>>, startLevel |-> 0]

InitPrepare ==
  /\ resolver = NewResolver
  /\ t = Nil
  /\ storageTries = <<>>
  /\ storageUpdates = <<>>
  /\ accountUpdates = <<>>
  /\ deleted = {}
  /\ blockNr = 1
  /\ dbAT = <<>>
  /\ dbST = <<>>
  /\ hAT = <<>>
  /\ hST = <<>>
  /\ hashes = <<>>
  /\ journal = <<>>
  /\ phase = "prepare"
  /\ committed = <<>>
  /\ last = NoOp
  /\ ops = 0
  /\ proofs = NoProofs
  /\ noHistory = FALSE
  /\ genIdle
  /\ poolIdle
  /\ driverIdle

prepareRest ==
  <<genVars, poolVars, driverVars, noHistory, proofs, t, tdsVars, dbVars, blockNr, hashes,
    journal, phase, committed>>

\* TrieResolver.AddContinuation of a continuation that asked for the Hash at
\* position pos of the path of key
AddContinuation ==
  /\ phase = "prepare"
  /\ ops = 0
  /\ Len(resolver.continuations) < MaxAdded
  /\ \E key \in KeyBytes, pos \in 0 .. KeyLen :
       LET c == needResolution(NoRequest, keybytesToHex(key), pos, hashNode(ZeroHash))
       IN  /\ resolver' = [resolver EXCEPT !.continuations = Append(@, c),
                                           !.resolveHexes = Append(@, c.resolveKey)]
           /\ last' = [op |-> "add", err |-> FALSE]
  /\ UNCHANGED <<prepareRest, ops>>

\* TrieResolver.PrepareResolveParams
PrepareResolveParams ==
  /\ phase = "prepare"
  /\ ops = 0
  /\ IF resolver.continuations = <<>>
     THEN /\ resolver' = resolver
          /\ last' = [op |-> "prepare", err |-> FALSE, added |-> <<>>,
                      startkeys |-> <<>>, fixedbits |-> <<>>]
     ELSE LET pend == [i \in DOMAIN resolver.continuations |->
                         [id |-> AT, tc |-> [c |-> resolver.continuations[i]]]]
              order == sortStable(pend, DOMAIN pend)
              sorted == [i \in DOMAIN order |-> pend[order[i]]]
              indices == startsInOrder(sorted, [i \in DOMAIN sorted |-> i],
                                       walkStarts(sorted, [i \in DOMAIN sorted |-> i], 0))
              prefix(i) == SubSeq(sorted[i].tc.c.resolveKey, 1, sorted[i].tc.c.resolvePos)
          IN  /\ resolver' =
                   [continuations |-> [i \in DOMAIN sorted |-> sorted[i].tc.c],
                    resolveHexes |->
                       [i \in DOMAIN newHexes(sortHexes(resolver.resolveHexes)) |->
                          newHexes(sortHexes(resolver.resolveHexes))[i].h],
                    contIndices |-> resolver.contIndices \o indices,
                    startLevel |-> sorted[1].tc.c.resolvePos]
              /\ last' = [op |-> "prepare", err |-> FALSE,
                          added |-> resolver.continuations,
                          startkeys |-> [i \in DOMAIN indices |->
                                           decodeNibbles(prefix(indices[i]), StartKeyLen)],
                          fixedbits |-> [i \in DOMAIN indices |->
                                           4 * sorted[indices[i]].tc.c.resolvePos]]
  /\ ops' = 1
  /\ UNCHANGED prepareRest

NextPrepare == AddContinuation \/ PrepareResolveParams

SpecPrepare == InitPrepare /\ [][NextPrepare]_vars

\* ------------------- several continuations on one trie, driven in passes
MaxDriven == 3

\* the updates TrieRoot turns into continuations: one for every key of the
\* map of pending updates (keys the initial tries are made of), a value to
\* write or the empty value to delete
DrivenUpdates ==
  UNION {{u \in [1 .. n -> [key : InitKeys, value : {NoBytes, Bytes(NumValues)}]] :
            \A i, j \in 1 .. n : i # j => u[i].key # u[j].key}
           : n \in 2 .. MaxDriven}

continuationsOf(updates) ==
  [i \in DOMAIN updates |->
     [id |-> AT, tc |-> UpdateAction(updates[i].key, updates[i].value)]]

\* the pass loop of TrieRoot over the continuations of the account trie
DrivePasses ==
  /\ phase = "trie"
  /\ ops = 0
  /\ \E updates \in DrivenUpdates :
       \E r \in {resolveLoop(continuationsOf(updates), [x \in {AT} |-> t], hashes,
                             blockNr, 0, 0, 0)} :
         /\ t' = r.tries[AT]
         /\ hashes' = r.tbl
         /\ last' = [op |-> "passes", err |-> r.err, stuck |-> r.stuck,
                     updates |-> updates, before |-> t, calls |-> r.calls]
  /\ ops' = 1
  /\ UNCHANGED <<auxVars, noHistory, proofs, tdsVars, dbVars, blockNr, journal, phase,
                 committed>>

NextPasses == TrieSetBlockNr \/ TrieGet \/ TrieUnload \/ DrivePasses

SpecPasses == InitTrie /\ [][NextPasses]_vars

\* ------------------- blocks whose storage writes may come on their own
\* the trie writer is given a storage slot of an account that exists and no
\* account record for that address
WriteStorageOnly ==
  /\ phase = "executing"
  /\ ops < MaxWrites
  /\ \E address \in Address, key \in StorageKey, value \in 0 .. NumValues :
      \E r \in {ReadAccountData(t, dbAT, address, blockNr)} :
        LET so == stateObject(address, r.account)
            first == key \notin DOMAIN so.storage
            s0 == IF address \in DOMAIN journal THEN tds ELSE [tds EXCEPT !.t = r.t]
        IN  \E rd \in {IF first THEN ReadAccountStorage(s0, db, address, key, blockNr)
                       ELSE [value |-> Bytes(so.storage[key].original), s |-> s0]} :
              LET b == TrieStateWriter_WriteAccountStorage(rd.s, address, key, value)
              IN  /\ so.account # NilAccount
                  /\ t' = b.t
                  /\ storageTries' = b.storageTries
                  /\ storageUpdates' = b.storageUpdates
                  /\ journal' = Put(journal, address,
                                    [so EXCEPT !.storage =
                                       Put(@, key, [original |-> rd.value.v,
                                                    value |-> value])])
                  /\ ops' = ops + 1
                  /\ last' = [op |-> "WriteAccountStorage", err |-> FALSE]
                  /\ UNCHANGED <<auxVars, noHistory, proofs, accountUpdates, deleted, blockNr,
                                 dbVars, hashes, phase, committed>>

NextStorageOnly ==
  \/ BeginBlock
  \/ BlockUpdateAccount
  \/ BlockDeleteAccount
  \/ BlockWriteStorage
  \/ WriteStorageOnly
  \/ DoTrieRoot

SpecStorageOnly == Init /\ [][NextStorageOnly]_vars

\* --------------------------- pruning after the block number was lowered
\* UnwindTo to an earlier block of a TrieDbState whose history holds nothing
\* for the blocks unwound: it ends with tds.blockNr = blockNr and leaves
\* oldestGeneration as it is
UnwindBeforePrune ==
  /\ phase = "prune"
  /\ \E target \in 1 .. (blockNr - 1) :
       \E b \in {rewindBuffers(tds, db, target)} :
         \E sord \in StorageOrders(b.storageUpdates),
            aord \in AccountOrders(b.accountUpdates) :
           \E r \in {UnwindTo(tds, db, target, sord, aord, 0)} :
             /\ ~r.err
             /\ t' = r.s.t
             /\ storageTries' = r.s.storageTries
             /\ storageUpdates' = r.s.storageUpdates
             /\ accountUpdates' = r.s.accountUpdates
             /\ deleted' = r.s.deleted
             /\ hashes' = r.s.hashes
             /\ blockNr' = r.s.blockNr
             /\ dbAT' = r.d.AT
             /\ dbST' = r.d.ST
             /\ hAT' = r.d.hAT
             /\ hST' = r.d.hST
  /\ last' = [op |-> "UnwindTo", err |-> FALSE, from |-> blockNr]
  /\ UNCHANGED <<auxVars, noHistory, proofs, journal, phase, committed, ops>>

\* the Short, Duo and Full nodes of generation gen resident in the account
\* trie root and the storage tries
residentIn(root, tries, gen) ==
  LET RECURSIVE inTries(_)
      inTries(A) ==
        IF A = {} THEN 0
        ELSE LET a == CHOOSE x \in A : TRUE
             IN  countOf(countNodes(tries[a]), gen) + inTries(A \ {a})
  IN  countOf(countNodes(root), gen) + inTries(DOMAIN tries)

RECURSIVE residentUpTo(_, _, _)
residentUpTo(root, tries, gen) ==
  IF gen < 0 THEN 0
  ELSE residentIn(root, tries, gen) + residentUpTo(root, tries, gen - 1)

\* the bookkeeping g counts the resident nodes, in all and by generation
countsExact(root, tries, g) ==
  /\ g.nodeCount = residentUpTo(root, tries, GenWidth - 1)
  /\ \A gen \in 0 .. (GenWidth - 1) :
       countOf(g.generationCounts, gen) = residentIn(root, tries, gen)

\* some node is counted in a generation older than oldestGeneration
countedBelowOldest ==
  \E g \in DOMAIN generationCounts :
    g < oldestGeneration /\ generationCounts[g] > 0

\* PruneTries, with what the search for the cutoff did: `from` is the
\* generation it started at, `below` tells that nodes were counted in a
\* generation older than that
PruneTriesRecorded ==
  /\ phase = "prune"
  /\ \E r \in {PruneTries([t |-> t, storageTries |-> storageTries,
                           nodeCount |-> nodeCount,
                           generationCounts |-> generationCounts,
                           oldestGeneration |-> oldestGeneration])} :
       /\ IF r.returned
          THEN /\ t' = r.t
               /\ storageTries' = r.storageTries
               /\ nodeCount' = r.nodeCount
               /\ generationCounts' = r.generationCounts
               /\ oldestGeneration' = r.oldestGeneration
               /\ phase' = phase
          ELSE /\ phase' = "hung"
               /\ UNCHANGED <<t, storageTries, genVars>>
       /\ last' = [op |-> "PruneTries", err |-> FALSE, before |-> nodeCount,
                   returned |-> r.returned, from |-> oldestGeneration,
                   below |-> countedBelowOldest,
                   exact |-> /\ countsExact(t, storageTries, gens)
                             /\ ~countedBelowOldest]
  /\ UNCHANGED <<poolVars, driverVars, resolver, noHistory, proofs, storageUpdates,
                 accountUpdates, deleted, dbVars, blockNr, hashes, journal,
                 committed, ops>>

NextPruneUnwound ==
  \/ TrieSetBlockNr
  \/ NodeJoins
  \/ NodeLeaves
  \/ UnwindBeforePrune
  \/ PruneTriesRecorded

SpecPruneUnwound == InitPrune /\ [][NextPruneUnwound]_vars

\* ------------------------------------------- the counts follow the trie
\* The account trie of InitPrune under TryUpdate with a value, SetBlockNr and
\* PruneTries, the bookkeeping of the TrieDbState driven by the calls of
\* joinGeneration and leftGeneration the trie makes, in the order made.
Join(gen) == <<"join", gen>>
Left(gen) == <<"left", gen>>

\* updateT moves a node from its generation to the one of the block
updateTGens(n, nr) == <<Left(n.t), Join(nr)>>

RECURSIVE timestampSubTreeGens(_, _)
\* the calls of timestampSubTree: every node that has no timestamp yet joins
timestampSubTreeGens(n, nr) ==
  LET RECURSIVE below(_, _)
      below(ch, i) ==
        IF i = FullWidth THEN <<>>
        ELSE timestampSubTreeGens(ch[i], nr) \o below(ch, i + 1)
  IN  CASE n.tag = "short" ->
             IF n.t = 0 THEN <<Join(nr)>> \o timestampSubTreeGens(n.Val, nr) ELSE <<>>
        [] n.tag = "duo" ->
             IF n.t = 0
             THEN <<Join(nr)>> \o timestampSubTreeGens(n.child1, nr)
                               \o timestampSubTreeGens(n.child2, nr)
             ELSE <<>>
        [] n.tag = "full" ->
             IF n.t = 0 THEN <<Join(nr)>> \o below(n.Children, 0) ELSE <<>>
        [] OTHER -> <<>>

\* the new Short below a Duo or Full joins; a value put in the slot does not
newChildGens(key, pos, nr) == IF Len(key) = pos + 1 THEN <<>> ELSE <<Join(nr)>>

RECURSIVE insertGens(_, _, _, _, _, _)
\* the calls insert makes on its way down
insertGens(origNode, key, pos, value, c, nr) ==
  IF Len(key) = pos THEN <<>>
  ELSE
  CASE origNode.tag = "short" ->
      LET nKey == compactToHex(origNode.Key)
          matchlen == prefixLen(Tail2(key, pos), nKey)
      IN  updateTGens(origNode, nr) \o
          (IF matchlen = Len(nKey)
           THEN insertGens(origNode.Val, key, pos + matchlen, value, c, nr)
           ELSE (IF Len(nKey) = matchlen + 1 THEN <<>> ELSE <<Join(nr)>>) \o
                (IF Len(key) = pos + matchlen + 1 THEN <<>> ELSE <<Join(nr)>>) \o
                (IF matchlen = 0 THEN <<>> ELSE <<Join(nr)>>))
    [] origNode.tag = "duo" ->
      LET ix == childrenIdx(origNode)
          k == key[pos + 1]
      IN  updateTGens(origNode, nr) \o
          (IF k = ix[1] THEN
             IF origNode.child1.tag = "nil" THEN newChildGens(key, pos, nr)
             ELSE insertGens(origNode.child1, key, pos + 1, value, c, nr)
           ELSE IF k = ix[2] THEN
             IF origNode.child2.tag = "nil" THEN newChildGens(key, pos, nr)
             ELSE insertGens(origNode.child2, key, pos + 1, value, c, nr)
           ELSE newChildGens(key, pos, nr))
    [] origNode.tag = "full" ->
      LET child == origNode.Children[key[pos + 1]]
      IN  updateTGens(origNode, nr) \o
          (IF child.tag = "nil" THEN newChildGens(key, pos, nr)
           ELSE insertGens(child, key, pos + 1, value, c, nr))
    [] origNode.tag = "hash" ->
      IF ~isResolvedFor(c, key, pos) THEN <<>>
      ELSE timestampSubTreeGens(c.resolved, nr) \o
           insertGens(timestampSubTree(c.resolved, nr), key, pos, value,
                      clearRequest(c), nr)
    [] OTHER -> <<>>

\* the calls of one run of an insert continuation
RunWithDbGens(tc, root, nr) ==
  IF root.tag = "nil" THEN <<Join(nr)>>
  ELSE insertGens(root, tc.key, 0, tc.value, tc.c, nr)

RECURSIVE runToEndGens(_, _, _, _, _)
\* the calls of TryUpdate: those of every run until the continuation is done
runToEndGens(tc, root, tbl, nr, pass) ==
  LET r == RunWithDb(tc, root, tbl, TRUE, TRUE, nr)
  IN  RunWithDbGens(tc, root, nr) \o
      (IF r.done \/ pass >= MaxPasses THEN <<>>
       ELSE runToEndGens([r.tc EXCEPT !.c = resolveFor(r.tc.c, {r.tc.c.resolveKey})],
                         r.root, r.tbl, nr, pass + 1))

RECURSIVE applyGens(_, _)
\* the callbacks of the TrieDbState applied to g in the order of the calls
applyGens(g, calls) ==
  IF calls = <<>> THEN g
  ELSE applyGens(IF Head(calls)[1] = "join" THEN joinGeneration(g, Head(calls)[2])
                 ELSE leftGeneration(g, Head(calls)[2]),
                 Tail(calls))

\* TryUpdate with a value on the account trie of a TrieDbState
CountedUpdate ==
  /\ phase = "prune"
  /\ \E k \in InitKeys, v \in Value :
       \E r \in {TryUpdate(t, hashes, TRUE, k, v, blockNr, 0)} :
         \E g \in {applyGens(gens, runToEndGens(UpdateAction(k, v), t, hashes,
                                                 blockNr, 0))} :
           /\ ~r.err
           /\ t' = r.root
           /\ hashes' = r.tbl
           /\ nodeCount' = g.nodeCount
           /\ generationCounts' = g.generationCounts
           /\ last' = [op |-> "update", key |-> k, value |-> v, err |-> FALSE,
                       passes |-> r.passes,
                       exact |-> /\ countsExact(t, storageTries, gens)
                                 /\ ~countedBelowOldest]
  /\ UNCHANGED <<oldestGeneration, poolVars, driverVars, resolver, noHistory, proofs,
                 tdsVars, dbVars, blockNr, journal, phase, committed, ops>>

NextCounted == TrieSetBlockNr \/ CountedUpdate \/ PruneTriesRecorded

SpecCounted == InitPrune /\ [][NextCounted]_vars

\* ------------------------------------------------------------- properties
\* C1: when the path of K holds no Hash placeholder, a completed TryUpdate(K, V)
\* makes TryGet(K) return V, a completed TryDelete(K) (or TryUpdate with the
\* empty value) makes it return nothing, and every other key whose path is
\* resolved is read as before.
GetAfterUpdate ==
  [][(last'.op \in {"update", "delete"} /\ ~last'.err /\ ops' = ops + 1
        /\ Lookup(t)[last'.key].gotValue)
     => /\ Lookup(t')[last'.key] = [value |-> last'.value, gotValue |-> TRUE]
        /\ \A k \in KeyBytes \ {last'.key} :
             Lookup(t)[k].gotValue => Lookup(t')[k] = Lookup(t)[k]]_vars

GetAfterUpdateWitness ==
  /\ last.op = "update" /\ ~last.err /\ ~isEmpty(last.value)
  /\ Lookup(t)[last.key] = [value |-> last.value, gotValue |-> TRUE]
  /\ \E k \in KeyBytes \ {last.key} :
       Lookup(t)[k].gotValue /\ ~isEmpty(Lookup(t)[k].value)

\* the content of the trie and the trie built from it alone
Content(root) == IF root.tag = "nil" THEN {} ELSE contentOf(Enc(root), <<>>)
Canonical(root) == buildFrom(Content(root), Nil, 1)

\* C2: after completed inserts and deletes the root hash, and the node
\* structure of a fully resolved trie, are those of the trie built from the
\* final content alone; with no content the root is absent and the hash is
\* the constant of the empty trie.
HashDependsOnContent ==
  ~last.err =>
    /\ hashRoot(t).hash = hashRoot(Canonical(t)).hash
    /\ ~HasHash(t) => Shape(t) = Shape(Canonical(t))
    /\ Content(t) = {} => t = Nil /\ hashRoot(t).hash = emptyRoot

HashDependsOnContentWitness ==
  /\ last.op = "delete" /\ ~last.err /\ last.passes > 0
  /\ t.tag = "short" /\ ~HasHash(t)

\* C5: after completed inserts and deletes, resolved and retried or not, no
\* Short has a Short as its child.
NoShortBelowShort == ~last.err => NoShortShort(t)

NoShortBelowShortWitness ==
  /\ last.op = "delete" /\ ~last.err /\ last.passes > 0
  /\ t.tag = "short" /\ Len(compactToHex(t.Key)) = HexLen

\* the account the trie with root `root` holds below an address hash
accountIn(root, addrHash) ==
  encodingToAccount(tryGet1(root, keybytesToHex(addrHash), 0, 0).value)

\* the account below an address hash in the state with root hash e
accountAt(e, addrHash) ==
  LET found == {p \in contentOf(e, <<>>) : p[1] = keybytesToHex(addrHash)}
  IN  IF found = {} THEN NilAccount
      ELSE encodingToAccount((CHOOSE p \in found : TRUE)[2])

\* the storage of an address after the block: the rows before the block (none
\* for an account the block created) with the slots the block wrote
storageAfter(address) ==
  LET pre == IF journal[address].original = NoOriginal THEN <<>>
             ELSE storageRows(dbST, address)
      w == journal[address].storage
      wrote == {HashKey(k) : k \in DOMAIN w}
      val(h) == IF h \in wrote
                THEN TrimLeft(w[CHOOSE k \in DOMAIN w : HashKey(k) = h].value)
                ELSE pre[h]
  IN  [h \in {x \in (DOMAIN pre) \cup wrote : ~isEmpty(val(x))} |-> val(h)]

UnwindRestoresRoots ==
  (last.op = "UnwindTo" /\ ~last.err /\ last.from = blockNr + 1)
    => /\ hashRoot(t).hash = committed[blockNr]
       /\ \A h \in DOMAIN storageTries :
            /\ accountAt(committed[blockNr], h) # NilAccount
            /\ hashRoot(storageTries[h]).hash = accountAt(committed[blockNr], h).Root

UnwindRestoresRootsWitness ==
  /\ last.op = "UnwindTo" /\ ~last.err /\ last.from = blockNr + 1
  /\ \E a \in Address :
       /\ accountAt(committed[last.from], HashAddress(a)) = NilAccount
       /\ accountAt(committed[blockNr], HashAddress(a)) # NilAccount
  /\ \E h \in DOMAIN storageTries :
       /\ accountAt(committed[last.from], h) # NilAccount
       /\ accountAt(committed[last.from], h).Root = emptyRoot
       /\ accountAt(committed[blockNr], h).Root # emptyRoot

\* C6: no Full node of a trie reconstructed from a witness has fewer than
\* three children.
VerifierFullsHaveThree ==
  (last.op = "CheckRoot" /\ last.built) => FullsHaveThree(last.t)

\* C7: when TrieRoot returns an error the three pending buffers hold what
\* they held before the call.
BuffersKeptOnError ==
  [][(last'.op = "TrieRoot" /\ last'.err)
       => /\ storageUpdates' = storageUpdates
          /\ DOMAIN accountUpdates' = DOMAIN accountUpdates
          /\ deleted' = deleted]_vars

\* C8: when TrieRoot returns an error the hash side-table holds what it held
\* before the call.
SideTableKeptOnError ==
  [][(last'.op = "TrieRoot" /\ last'.err) => hashes' = hashes]_vars

\* C9: after a TrieRoot that succeeds the three pending buffers are empty.
BuffersEmptyAfterTrieRoot ==
  (last.op = "TrieRoot" /\ ~last.err)
    => storageUpdates = <<>> /\ accountUpdates = <<>> /\ deleted = {}

BuffersEmptyAfterTrieRootWitness ==
  /\ last.op = "TrieRoot" /\ ~last.err
  /\ \E a \in DOMAIN journal : journal[a].account = NilAccount
  /\ \E a \in DOMAIN journal :
       journal[a].account # NilAccount /\ DOMAIN journal[a].storage # {}

\* C10: after a TrieRoot that succeeds, the record of every account the block
\* updated and did not delete carries as its storage root the hash of the
\* account's storage trie with the storage writes of the block applied.
StorageRootsCurrent ==
  (last.op = "TrieRoot" /\ ~last.err)
    => \A a \in DOMAIN journal :
         journal[a].account # NilAccount
           => /\ accountIn(t, HashAddress(a)) # NilAccount
              /\ accountIn(t, HashAddress(a)).Root
                   = hashRoot(storageTrieOf(storageAfter(a))).hash

StorageRootsCurrentWitness ==
  /\ last.op = "TrieRoot" /\ ~last.err
  /\ \E a \in DOMAIN journal :
       /\ journal[a].account # NilAccount
       /\ journal[a].original # NoOriginal
       /\ accountIn(t, HashAddress(a)).Root # journal[a].original.Root
       /\ accountIn(t, HashAddress(a)).Root # emptyRoot

\* C11: NewStateless returns an error and no verifier whenever the account trie
\* rebuilt from the witness does not hash to the claimed pre-state root, or the
\* storage trie rebuilt for a listed contract does not hash to the storage root
\* of that contract in the rebuilt account trie.
NewStatelessRejectsMismatch ==
  (last.op = "Tampered" /\ (last.rootDiffers \/ last.storageDiffers))
    => last.err /\ ~last.built /\ ~last.panic

NewStatelessRejectsMismatchWitness ==
  /\ last.op = "Tampered"
  /\ last.storageDiffers /\ ~last.rootDiffers
  /\ last.array = "CValues"
  /\ last.err /\ ~last.built

\* the account the verifier's trie holds under an address hash
verifierAccount(s, addrHash) ==
  encodingToAccount(TryGet(s.t, <<>>, addrHash, s.blockNr).value)

\* the value the verifier's storage trie of an address holds under a key hash
verifierStorage(s, addrHash, keyHash) ==
  IF addrHash \in DOMAIN s.storageTries
  THEN TryGet(s.storageTries[addrHash], <<>>, keyHash, s.blockNr).value
  ELSE NoBytes

\* C12: CheckRoot(expected) with checking on applies the buffered storage
\* updates and then the buffered account updates, and returns without error
\* exactly when the root it recomputed equals expected; after a return without
\* error the three pending buffers of the verifier are empty, its account trie
\* hashes to expected and holds the accounts and storage values that were
\* buffered.
CheckRootComparesAndClears ==
  last.op = "CheckRootOnly"
    => /\ last.unexpected => last.err
       /\ ~last.unexpected => (~last.err <=> last.root = last.expected)
       /\ ~last.err =>
            /\ last.after.storageUpdates = <<>>
            /\ last.after.accountUpdates = <<>>
            /\ last.after.deleted = {}
            /\ hashRoot(last.after.t).hash = last.expected
            /\ \A h \in DOMAIN last.fed.accountUpdates :
                 LET acc == verifierAccount(last.after, h)
                 IN  IF last.fed.accountUpdates[h] = NilAccount THEN acc = NilAccount
                     ELSE /\ acc # NilAccount
                          /\ acc.Nonce = last.fed.accountUpdates[h].Nonce
                          /\ acc.Balance = last.fed.accountUpdates[h].Balance
            /\ \A a \in DOMAIN last.fed.storageUpdates :
                 HashAddress(a) \notin last.fed.deleted
                   => \A k \in DOMAIN last.fed.storageUpdates[a] :
                        verifierStorage(last.after, HashAddress(a), k)
                          = last.fed.storageUpdates[a][k]

CheckRootComparesAndClearsWitness ==
  /\ last.op = "CheckRootOnly" /\ ~last.err
  /\ last.fed.deleted # {}
  /\ \E a \in DOMAIN last.fed.storageUpdates :
       /\ HashAddress(a) \notin last.fed.deleted
       /\ \E k \in DOMAIN last.fed.storageUpdates[a] :
            ~isEmpty(last.fed.storageUpdates[a][k])
  /\ last.after.storageUpdates = <<>> /\ last.after.accountUpdates = <<>>

\* a replay the verifier refuses because the root it recomputed is another
CheckRootMismatchReached ==
  /\ last.op = "CheckRootOnly" /\ ~last.unexpected
  /\ last.err /\ last.root # last.expected

\* C13: when the verifier accepts the witness P for the pre-state root and the
\* block replays on it to the expected post-state root, every witness that
\* differs from P in one element of one array is rejected, by NewStateless or
\* by CheckRoot.
SingleElementRejected ==
  (last.op = "Tampered" /\ last.kind = "element") => last.err

\* C14: NewStateless rejects a malformed witness by returning an error, never
\* by a failure that nothing catches: neither when an array is shorter than the
\* masks require, nor when the account of a listed contract is absent from the
\* rebuilt account trie.
MalformedReturnsError ==
  last.op = "Tampered" => ~last.panic

\* the trie the verifier rebuilds from the arrays ExtractProofs returned
rebuilt(proof) ==
  NewFromProofs([masks |-> proof.masks, shortKeys |-> proof.shortKeys,
                 values |-> proof.values, hashes |-> proof.hashes], NoIdx)

\* C15: whatever the reads and writes of the block, in any order and with
\* repeated accesses, ExtractProofs returns the values of the leaves reached in
\* depth-first key order, one value for each leaf, and the trie rebuilt from
\* the returned arrays hashes to the root before the block.
ValuesInKeyOrder ==
  last.op = "ExtractProofs"
    => /\ \A i \in 1 .. (Len(last.valueKeys) - 1) :
            SeqLess(last.valueKeys[i], last.valueKeys[i + 1])
       /\ ~rebuilt(last.proof).idx.panic
       /\ hashRoot(rebuilt(last.proof).n).hash = committed[0]

RECURSIVE encAt(_, _)
\* the branch at `path` in the trie whose root hashes to e, Nil when the
\* path does not end at a branch
encAt(e, path) ==
  CASE e.tag = "encBranch" ->
         IF path = <<>> THEN e ELSE encAt(e.Children[Head(path)], Tail(path))
    [] e.tag = "encShort" ->
         LET nKey == compactToHex(e.Key)
         IN  IF HasPrefix(path, nKey) THEN encAt(e.Val, Tail2(path, Len(nKey))) ELSE Nil
    [] OTHER -> Nil

\* the nibbles under which the traversals of the block left the path P
nibblesTaken(P) ==
  {keybytesToHex(last.reads[i])[Len(P) + 1] :
     i \in {j \in DOMAIN last.reads : HasPrefix(keybytesToHex(last.reads[j]), P)}}
  \cup {keybytesToHex(last.writes[i])[Len(P) + 1] :
     i \in {j \in DOMAIN last.writes : HasPrefix(keybytesToHex(last.writes[j]), P)}}

\* the mask recorded for P holds the siblings that no traversal descended into
MaskIsIntersection ==
  phase = "recording"
    => \A P \in DOMAIN proofs.readProofMasks :
         encAt(committed[0], P).tag = "encBranch"
           => proofs.readProofMasks[P]
                = SumPow2({i \in 0 .. 15 : encAt(committed[0], P).Children[i].tag # "nil"}
                          \ nibblesTaken(P))

\* C16: after any traversals through the branch at the path P, the mask
\* recorded for P is the intersection of the sibling masks the traversals
\* reported, and for every bit i left in it the hash recorded at index i is
\* the hash of child i of the branch.
SiblingHashesRecorded ==
  /\ MaskIsIntersection
  /\ phase = "recording"
       => \A P \in DOMAIN proofs.readProofMasks :
            encAt(committed[0], P).tag = "encBranch"
              => \A i \in 0 .. 15 :
                   Bit(proofs.readProofMasks[P], i) = 1
                     => proofs.readProofHashes[P][i] = encAt(committed[0], P).Children[i]

RECURSIVE visited(_, _, _)
\* the nodes a read of key visits below the node that hashes to e: the
\* number of Duo and Full nodes, and the number of Short nodes
visited(e, key, pos) ==
  CASE e.tag = "encBranch" ->
         LET r == visited(e.Children[key[pos + 1]], key, pos + 1)
         IN  [r EXCEPT !.branches = @ + 1]
    [] e.tag = "encShort" ->
         LET nKey == compactToHex(e.Key)
             r == IF HasPrefix(Tail2(key, pos), nKey)
                  THEN visited(e.Val, key, pos + Len(nKey))
                  ELSE [branches |-> 0, shorts |-> 0]
         IN  [r EXCEPT !.shorts = @ + 1]
    [] OTHER -> [branches |-> 0, shorts |-> 0]

\* the first traversal of the block was a read, and nothing else was done
SingleRead == phase = "recording" /\ ops = 1 /\ last.op = "get"

\* one record of sibling hashes for each Duo or Full node visited and one
\* short key for each Short node visited
OneRecordPerNode ==
  SingleRead
    => LET v == visited(committed[0], keybytesToHex(last.key), 0)
       IN  /\ Cardinality(DOMAIN proofs.readProofMasks) = v.branches
           /\ DOMAIN proofs.readProofHashes = DOMAIN proofs.readProofMasks
           /\ Cardinality(DOMAIN proofs.proofShorts) = v.shorts

\* C17: a single read of one key on a resolved trie with the recording on
\* leaves exactly one record of sibling hashes for each Duo or Full node
\* visited, exactly one short key for each Short node visited, and exactly one
\* value.
SingleReadRecord ==
  /\ OneRecordPerNode
  /\ SingleRead => Len(proofs.proofValues) = 1

\* a single read of a key the trie holds leaves exactly one value
SingleReadOfPresentKey ==
  (SingleRead /\ ~isEmpty(last.value)) => Len(proofs.proofValues) = 1

\* C18: a Get whose path reaches a Hash placeholder while the resolution of
\* reads is off fails with a need-resolution result (key, position, expected
\* hash) and returns no value.
GetFailsAtHash ==
  (last.op = "get" /\ phase = "trie" /\ ~last.gotValue) => last.err

InsertRetriedOnce ==
  /\ last.op = "update"
  /\ phase = "trie"
  /\ last.value # NoBytes
  /\ ~last.err
  /\ last.passes = 1

\* the rows below the walk start of continuation number i of the last pass
groupOf(i) ==
  {<<k, dbAT[k]>> : k \in rowsBelow(dbAT, last.before[i].tc.c)}

\* the bucket holds no row below the walk start
subtreeMissing(i) == groupOf(i) = {}

\* the subtree rebuilt from the rows has another hash than the expected one
subtreeDiffers(i) ==
  /\ ~subtreeMissing(i)
  /\ hashRoot(rebuildSubtree(groupOf(i), last.before[i].tc.c.resolvePos)).hash
       # last.before[i].tc.c.resolveHash

\* continuation number i holds a resolved subtree with the expected hash
holdsExpected(i) ==
  /\ last.after[i].tc.c.resolved.tag # "nil"
  /\ hashRoot(last.after[i].tc.c.resolved).hash = last.after[i].tc.c.resolveHash

\* C20: after a resolver pass without error every continuation used as a walk
\* start holds a resolved subtree whose hash is the continuation's expected
\* hash; when the subtree rebuilt from the bucket is missing or has another
\* hash, the pass returns an error and the continuation holds no subtree.
PassAttachesExpectedOrFails ==
  last.op = "resolve" =>
    /\ ~last.err => \A i \in last.starts : holdsExpected(i)
    /\ \A i \in last.starts :
         (subtreeMissing(i) \/ subtreeDiffers(i)) =>
            last.err /\ last.after[i].tc.c.resolved.tag = "nil"

\* the part of C20 the walker keeps: a group with rows is attached only with
\* the expected hash, and a group with another hash ends the pass in error
RebuiltGroupChecked ==
  last.op = "resolve" =>
    /\ ~last.err => \A i \in last.starts : ~subtreeMissing(i) => holdsExpected(i)
    /\ \A i \in last.starts :
         subtreeDiffers(i) => last.err /\ last.after[i].tc.c.resolved.tag = "nil"
    /\ (\A i \in last.starts : ~subtreeMissing(i) /\ ~subtreeDiffers(i)) => ~last.err

\* a pass over two walk starts, one with its rows and one without any
PassOverMissingRows ==
  /\ last.op = "resolve"
  /\ ~last.err
  /\ Cardinality(last.starts) = 2
  /\ \E i \in last.starts : subtreeMissing(i)
  /\ \E i \in last.starts : holdsExpected(i)

\* a pass that ends in error at a group with another hash
PassOverChangedRows ==
  /\ last.op = "resolve"
  /\ last.err
  /\ \E i \in last.starts : subtreeDiffers(i)

\* a step of CommitBlock: the state objects of the journal go through the db
\* writer at block blockNr
CommitStep == phase \in {"rooted", "replayed"} /\ phase' = "idle"

\* C21: for every account update and every storage write the db writer makes
\* at block b: with the history on and a new value that differs from the
\* original, the log holds one entry of the key tagged b, and it is the value
\* the bucket held before the block; with an equal value, or with noHistory
\* on, the log holds no entry of the key tagged b.
HistoryOfUpdates ==
  [][CommitStep =>
       \A a \in DOMAIN journal :
         journal[a].account # NilAccount =>
           /\ IF ~noHistory /\ ~accountsEqual(journal[a].original, journal[a].account)
              THEN /\ <<HashAddress(a), blockNr>> \in DOMAIN hAT'
                   /\ hAT'[<<HashAddress(a), blockNr>>] = Get(dbAT, HashAddress(a))
              ELSE <<HashAddress(a), blockNr>> \notin DOMAIN hAT'
           /\ \A k \in DOMAIN journal[a].storage :
                IF ~noHistory /\ journal[a].storage[k].original # journal[a].storage[k].value
                THEN /\ <<<<a, HashKey(k)>>, blockNr>> \in DOMAIN hST'
                     /\ hST'[<<<<a, HashKey(k)>>, blockNr>>] = Get(dbST, <<a, HashKey(k)>>)
                ELSE <<<<a, HashKey(k)>>, blockNr>> \notin DOMAIN hST']_vars

\* a committed block that changed an account and a slot, and one that wrote a
\* slot its old value: the log holds the two entries of the first only
HistoryOfUpdatesWitness ==
  /\ last.op = "Commit"
  /\ ~noHistory
  /\ \E e \in DOMAIN hAT : e[2] = blockNr /\ hAT[e] # NoBytes
  /\ \E e \in DOMAIN hST : e[2] = blockNr /\ hST[e] # NoBytes

\* a block committed with noHistory on leaves the log empty
NoHistoryCommitted ==
  /\ last.op = "Commit"
  /\ noHistory
  /\ blockNr = MaxBlock

\* the accounts the block deletes, and the slots it sets to zero in accounts
\* it keeps
deletedAccounts == {a \in DOMAIN journal : journal[a].account = NilAccount}

deletedSlots ==
  {c \in {<<a, k>> : a \in (DOMAIN journal) \ deletedAccounts, k \in StorageKey} :
     /\ c[2] \in DOMAIN journal[c[1]].storage
     /\ journal[c[1]].storage[c[2]].value = 0
     /\ journal[c[1]].storage[c[2]].original # 0}

\* C22: with the history on, the entry the db writer logs for a deleted
\* account or a deleted slot is the empty string.
DeleteLogsEmptyMarker ==
  [][(CommitStep /\ ~noHistory) =>
       /\ \A a \in deletedAccounts : hAT'[<<HashAddress(a), blockNr>>] = NoBytes
       /\ \A c \in deletedSlots : hST'[<<<<c[1], HashKey(c[2])>>, blockNr>>] = NoBytes]_vars

\* C22, amended: with the history on, the entry the db writer logs for a
\* deleted account or a deleted slot is the value the bucket held before the
\* block; it is the empty string only for an account the block itself created.
DeleteLogsOriginal ==
  [][(CommitStep /\ ~noHistory) =>
       /\ \A a \in deletedAccounts :
            /\ <<HashAddress(a), blockNr>> \in DOMAIN hAT'
            /\ hAT'[<<HashAddress(a), blockNr>>] = Get(dbAT, HashAddress(a))
            /\ hAT'[<<HashAddress(a), blockNr>>] = NoBytes <=>
                  journal[a].original = NoOriginal
       /\ \A c \in deletedSlots :
            /\ <<<<c[1], HashKey(c[2])>>, blockNr>> \in DOMAIN hST'
            /\ hST'[<<<<c[1], HashKey(c[2])>>, blockNr>>] = Get(dbST, <<c[1], HashKey(c[2])>>)
            /\ hST'[<<<<c[1], HashKey(c[2])>>, blockNr>>] # NoBytes]_vars

\* a committed block that deleted an account the bucket held: the bucket has
\* lost the row and the log holds its encoding
DeleteLogsOriginalWitness ==
  /\ last.op = "Commit"
  /\ ~noHistory
  /\ \E e \in DOMAIN hAT :
       /\ e[2] = blockNr
       /\ e[1] \notin DOMAIN dbAT
       /\ hAT[e] # NoBytes

\* a committed block that created and deleted an account, and one that set a
\* slot to zero
CreatedAndDeletedLogged ==
  /\ last.op = "Commit"
  /\ ~noHistory
  /\ \E e \in DOMAIN hAT : e[2] = blockNr /\ e[1] \notin DOMAIN dbAT /\ hAT[e] = NoBytes

SlotDeletionLogged ==
  /\ last.op = "Commit"
  /\ ~noHistory
  /\ \E e \in DOMAIN hST : e[2] = blockNr /\ e[1] \notin DOMAIN dbST /\ hST[e] # NoBytes

\* the keys of the accounts log for which the callback of an UnwindTo from
\* block src to block dst returns an error
callbackErrors(src, dst) ==
  {h \in DOMAIN rewindData(dbAT, hAT, src, dst) :
     decodeFails(rewindData(dbAT, hAT, src, dst)[h])}

\* C23: when the callback UnwindTo gives to the rewind returns an error for a
\* key, UnwindTo returns an error (it does not return as completed at the
\* target block).
CallbackErrorReturned ==
  [][(phase = "idle" /\ last'.op = "UnwindTo" /\ ~last'.err) =>
       callbackErrors(blockNr, blockNr') = {}]_vars

\* an UnwindTo over a damaged entry reached the state "unwound"
CallbackErrorDropped ==
  /\ last.op = "UnwindTo"
  /\ ~last.err
  /\ phase = "unwound"
  /\ \E a \in Address : HashAddress(a) \notin DOMAIN dbAT

\* the entries of a log tagged with a block at or below b
upTo(hist, b) == [e \in {x \in DOMAIN hist : x[2] <= b} |-> hist[e]]

\* C24: after a successful UnwindTo(target) called at block cur the history
\* log holds no entry tagged with a block in (target, cur], and the entries
\* tagged with a block at or below target are the ones it held before.
UnwindClearsLaterHistory ==
  [][(phase = "idle" /\ last'.op = "UnwindTo" /\ ~last'.err) =>
       /\ \A e \in DOMAIN hAT' : e[2] <= blockNr'
       /\ \A e \in DOMAIN hST' : e[2] <= blockNr'
       /\ hAT' = upTo(hAT, blockNr')
       /\ hST' = upTo(hST, blockNr')]_vars

\* an UnwindTo over one block that left the entries of the block before it,
\* and had entries of its own to delete
UnwindClearsLaterHistoryWitness ==
  /\ last.op = "UnwindTo"
  /\ ~last.err
  /\ last.from = blockNr + 1
  /\ last.from \in DOMAIN committed
  /\ \E e \in DOMAIN hAT : e[2] = blockNr
  /\ \E e \in DOMAIN hST : e[2] = blockNr

\* an UnwindTo over two blocks
UnwoundTwoBlocks ==
  /\ last.op = "UnwindTo"
  /\ ~last.err
  /\ last.from = blockNr + 2

\* the (bucket, key) pairs with a history entry tagged in (dst, src]
pairsInRange(src, dst) ==
  {<<"hAT", e[1]>> : e \in {x \in DOMAIN hAT : dst < x[2] /\ x[2] <= src}}
    \cup {<<"hST", e[1]>> : e \in {x \in DOMAIN hST : dst < x[2] /\ x[2] <= src}}

\* C25: rewindData(src, dst, f) calls f exactly once for each distinct
\* (bucket, key) pair that has a history entry with a timestamp in (dst, src]
\* and never for another pair, so the number of calls is the number of such
\* pairs over all buckets.
OneCallPerChangedKey ==
  last.op = "rewindData"
    => /\ {last.calls[i] : i \in DOMAIN last.calls} = pairsInRange(last.src, last.dst)
       /\ \A i, j \in DOMAIN last.calls : i # j => last.calls[i] # last.calls[j]
       /\ Len(last.calls) = Cardinality(pairsInRange(last.src, last.dst))

\* a rewind over two blocks in which a key was logged in both, with keys of
\* both buckets and an entry outside the range
OneCallPerChangedKeyWitness ==
  /\ last.op = "rewindData"
  /\ last.src = last.dst + 2
  /\ Len(last.calls) = 2
  /\ \E e \in DOMAIN hAT :
       /\ e[2] = last.src
       /\ <<e[1], last.src - 1>> \in DOMAIN hAT
  /\ \E e \in DOMAIN hST : e[2] = last.src
  /\ \E e \in DOMAIN hAT : e[2] <= last.dst

\* C26: after PruneTries returns, nodeCount is at most MaxTrieCacheGen.
PrunedToCap ==
  last.op = "PruneTries" => nodeCount <= MaxTrieCacheGen

\* a PruneTries that found more nodes than the cap, removed two generations
\* and unloaded the trie
PrunedToCapWitness ==
  /\ last.op = "PruneTries"
  /\ last.before > MaxTrieCacheGen
  /\ nodeCount <= MaxTrieCacheGen
  /\ oldestGeneration = 3
  /\ t.tag = "hash"

\* a PruneTries that had nothing to remove
PrunedBelowCap ==
  /\ last.op = "PruneTries"
  /\ last.before = nodeCount
  /\ nodeCount > 0

\* the slot of a Short's child, next to the slots 0..16 of a branch
ValSlot == FullWidth

RECURSIVE embeddedPaths(_, _, _)
\* the paths (slot after slot from the root) of the embedded nodes below n
embeddedPaths(n, path, isRoot) ==
  LET here == IF embedded(n, isRoot) THEN {path} ELSE {}
  IN  CASE n.tag = "short" ->
             here \cup embeddedPaths(n.Val, Append(path, ValSlot), FALSE)
        [] n.tag = "duo" ->
             here \cup UNION {embeddedPaths(DuoChildren(n)[i], Append(path, i), FALSE)
                                : i \in ChildIdx}
        [] n.tag = "full" ->
             here \cup UNION {embeddedPaths(n.Children[i], Append(path, i), FALSE)
                                : i \in ChildIdx}
        [] OTHER -> {}

RECURSIVE slotAt(_, _)
\* what the slot at the end of path holds, Nil when the path is cut off by a
\* Hash above it
slotAt(n, path) ==
  IF path = <<>> THEN n
  ELSE CASE n.tag = "short" ->
              IF Head(path) = ValSlot THEN slotAt(n.Val, Tail(path)) ELSE Nil
         [] n.tag = "duo" -> slotAt(DuoChildren(n)[Head(path)], Tail(path))
         [] n.tag = "full" -> slotAt(n.Children[Head(path)], Tail(path))
         [] OTHER -> Nil

\* C27: pruning never replaces an embedded node (one whose hash
\* representation is shorter than 32 bytes) by a Hash placeholder, whether
\* the node is a Short, a Duo or a Full and whether it is dirty or clean.
EmbeddedNeverUnloaded ==
  [][\A p \in embeddedPaths(t, <<>>, TRUE) : slotAt(t', p).tag # "hash"]_vars

\* what the unloading does keep: a dirty embedded Short or Duo
DirtyEmbeddedKept ==
  [][\A p \in embeddedPaths(t, <<>>, TRUE) :
       (slotAt(t, p).tag \in {"short", "duo"} /\ slotAt(t, p).dirty)
         => slotAt(t', p).tag # "hash"]_vars

\* a dirty embedded Full is replaced by a Hash
DirtyFullKept ==
  [][\A p \in embeddedPaths(t, <<>>, TRUE) :
       (slotAt(t, p).tag = "full" /\ slotAt(t, p).dirty)
         => slotAt(t', p).tag # "hash"]_vars

\* a clean embedded node is replaced by a Hash
CleanEmbeddedKept ==
  [][\A p \in embeddedPaths(t, <<>>, TRUE) :
       ~slotAt(t, p).dirty => slotAt(t', p).tag # "hash"]_vars

PooledHasherTaken ==
  /\ phase = "pool"
  /\ last.op = "newHasher"
  /\ ~last.made
  /\ \A g \in Goroutine : holding[g].pc = "holding"

driverEnded == driverPc \in {"done", "panicked"}

\* the interrupt flag changes only in the select after a block, and the loop
\* is left only at its head, at the fetch of a block or at the block count
BoundariesOnly ==
  [][/\ interrupt' # interrupt => driverPc = "select"
     /\ interruptCh' < interruptCh => driverPc = "select"
     /\ (driverPc' = "exit" /\ driverPc # "exit")
          => driverPc \in {"head", "fetch", "count"}]_vars

ForwarderLagged ==
  /\ driverPc = "done"
  /\ interrupt
  /\ begun.sinceSignal > 1

RECURSIVE branchesOn(_, _, _)
\* the Duo and Full nodes on the path of the hex key below n, each with the
\* number of nibbles of the key above it
branchesOn(n, key, pos) ==
  CASE n.tag = "short" ->
         LET nKey == compactToHex(n.Key)
         IN  IF Len(key) - pos > Len(nKey) /\ SubSeq(key, pos + 1, pos + Len(nKey)) = nKey
             THEN branchesOn(n.Val, key, pos + Len(nKey))
             ELSE {}
    [] n.tag = "duo" ->
         {[n |-> n, pos |-> pos]} \cup branchesOn(DuoChildren(n)[key[pos + 1]], key, pos + 1)
    [] n.tag = "full" ->
         {[n |-> n, pos |-> pos]} \cup branchesOn(n.Children[key[pos + 1]], key, pos + 1)
    [] OTHER -> {}

childrenOf(n) == IF n.tag = "duo" THEN DuoChildren(n) ELSE n.Children

\* the Full that holds the two children of a Duo
asFull(n) ==
  [tag |-> "full", Children |-> DuoChildren(n), dirty |-> n.dirty, hash |-> n.hash,
   t |-> n.t]

\* the delete of the key takes the child of branch n on the key's nibble away
losesChild(n, key, pos, nr) ==
  LET sub == delete(childrenOf(n)[key[pos + 1]], key, pos + 1, NoRequest, nr)
  IN  /\ childrenOf(n)[key[pos + 1]].tag # "nil"
      /\ sub.done
      /\ sub.updated
      /\ sub.n.tag = "nil"

\* the children the delete leaves to branch n
leftTo(n, key, pos) == NonNilIdx(childrenOf(n)) \ {key[pos + 1]}

\* what delete makes of a branch that loses a child: with two children left a
\* Duo of the two, with one child left a Short of the nibble, merged with the
\* child when the child is a Short
reducedAsClaimed(n, key, pos, nr) ==
  LET ch == childrenOf(n)
      rest == leftTo(n, key, pos)
      res == delete(n, key, pos, NoRequest, nr)
      i == SetMin(rest)
  IN  /\ (Cardinality(rest) = 2 /\ n.tag = "full")
           => /\ res.done
              /\ res.n.tag = "duo"
              /\ MaskBits(res.n.mask) = rest
              /\ res.n.child1 = ch[SetMin(rest)]
              /\ res.n.child2 = ch[SetMax(rest)]
      /\ (Cardinality(rest) = 1 /\ i # 16 /\ ch[i].tag = "short")
           => /\ res.done
              /\ res.n.tag = "short"
              /\ compactToHex(res.n.Key) = <<i>> \o compactToHex(ch[i].Key)
              /\ res.n.Val = ch[i].Val
      /\ (Cardinality(rest) = 1 /\ i # 16 /\ ch[i].tag \in {"duo", "full"})
           => /\ res.done
              /\ res.n.tag = "short"
              /\ compactToHex(res.n.Key) = <<i>>
              /\ res.n.Val = ch[i]

\* C30: a delete that leaves a Full with exactly two children replaces it by
\* a Duo holding those two children; a delete that leaves a Full or a Duo with
\* exactly one child replaces it by a Short, and when the surviving child is
\* itself a Short the result is one Short whose key is the branch nibble
\* followed by the survivor's key.
DeleteReducesBranch ==
  (last.op = "delete" /\ ~last.err) =>
    \A e \in branchesOn(last.before, keybytesToHex(last.key), 0) :
      losesChild(e.n, keybytesToHex(last.key), e.pos, blockNr)
        => /\ reducedAsClaimed(e.n, keybytesToHex(last.key), e.pos, blockNr)
           /\ e.n.tag = "duo"
                => reducedAsClaimed(asFull(e.n), keybytesToHex(last.key), e.pos, blockNr)

\* a delete took a child from a Duo whose other child was a Short, and the
\* trie holds the merged Short
DeleteReducesBranchWitness ==
  /\ last.op = "delete"
  /\ ~last.err
  /\ \E e \in branchesOn(last.before, keybytesToHex(last.key), 0) :
       /\ e.n.tag = "duo"
       /\ losesChild(e.n, keybytesToHex(last.key), e.pos, blockNr)
       /\ \E i \in leftTo(e.n, keybytesToHex(last.key), e.pos) :
            /\ childrenOf(e.n)[i].tag = "short"
            /\ e.pos = 0
            /\ t.tag = "short"
            /\ compactToHex(t.Key) = <<i>> \o compactToHex(childrenOf(e.n)[i].Key)

\* a delete took a child from a Full of three, and the trie holds a Duo in
\* its place
FullBecameDuo ==
  /\ last.op = "delete"
  /\ ~last.err
  /\ \E e \in branchesOn(last.before, keybytesToHex(last.key), 0) :
       /\ e.n.tag = "full"
       /\ losesChild(e.n, keybytesToHex(last.key), e.pos, blockNr)
       /\ Cardinality(leftTo(e.n, keybytesToHex(last.key), e.pos)) = 2
       /\ \E d \in branchesOn(t, keybytesToHex(last.key), 0) :
            d.pos = e.pos /\ d.n.tag = "duo"

RECURSIVE hasDirty(_)
\* some Short, Duo or Full in the subtree of n is dirty
hasDirty(n) ==
  CASE n.tag = "short" -> n.dirty \/ hasDirty(n.Val)
    [] n.tag = "duo" -> n.dirty \/ hasDirty(n.child1) \/ hasDirty(n.child2)
    [] n.tag = "full" -> n.dirty \/ \E i \in ChildIdx : hasDirty(n.Children[i])
    [] OTHER -> FALSE

RECURSIVE noDirtyBelowClean(_)
\* no clean node of the subtree of n has a dirty descendant
noDirtyBelowClean(n) ==
  CASE n.tag = "short" -> /\ n.dirty \/ ~hasDirty(n.Val)
                          /\ noDirtyBelowClean(n.Val)
    [] n.tag = "duo" -> /\ n.dirty \/ (~hasDirty(n.child1) /\ ~hasDirty(n.child2))
                        /\ noDirtyBelowClean(n.child1)
                        /\ noDirtyBelowClean(n.child2)
    [] n.tag = "full" -> /\ n.dirty \/ \A i \in ChildIdx : ~hasDirty(n.Children[i])
                         /\ \A i \in ChildIdx : noDirtyBelowClean(n.Children[i])
    [] OTHER -> TRUE

RECURSIVE nodesOn(_, _, _)
\* the Short, Duo and Full nodes a walk along the hex key visits below n
nodesOn(n, key, pos) ==
  CASE n.tag = "short" ->
         LET nKey == compactToHex(n.Key)
         IN  {n} \cup
             IF Len(key) - pos >= Len(nKey) /\ SubSeq(key, pos + 1, pos + Len(nKey)) = nKey
             THEN nodesOn(n.Val, key, pos + Len(nKey))
             ELSE {}
    [] n.tag = "duo" -> {n} \cup nodesOn(DuoChildren(n)[key[pos + 1]], key, pos + 1)
    [] n.tag = "full" -> {n} \cup nodesOn(n.Children[key[pos + 1]], key, pos + 1)
    [] OTHER -> {}

\* C31: after a completed insert or delete that changes the trie every Short,
\* Duo and Full node on the path from the root to the changed position is
\* dirty, and at all times no clean node has a dirty descendant.
PathDirtyAfterChange ==
  /\ noDirtyBelowClean(t)
  /\ (last.op = "run" /\ ~last.err /\ last.changed)
       => \A n \in nodesOn(t, keybytesToHex(last.key), 0) : n.dirty

\* a second change of a trie whose path holds two nodes or more, beside nodes
\* that are clean
PathDirtyAfterChangeWitness ==
  /\ last.op = "run"
  /\ ~last.err
  /\ last.changed
  /\ ops = 2
  /\ Cardinality(nodesOn(t, keybytesToHex(last.key), 0)) >= 2
  /\ \E k \in KeyBytes :
       \E n \in nodesOn(t, k, 0) : ~n.dirty

\* a run that fails in the resolver leaves the trie as the first pass made it
RunFailedHalfway ==
  /\ last.op = "run"
  /\ last.err
  /\ hasDirty(t)

RECURSIVE resident(_, _, _)
\* the Short, Duo and Full nodes in memory below n: the path of each (slot
\* after slot), its timestamp and whether it is embedded
resident(n, path, isRoot) ==
  LET here == {[p |-> path, t |-> n.t, emb |-> embedded(n, isRoot)]}
  IN  CASE n.tag = "short" ->
             here \cup resident(n.Val, Append(path, ValSlot), FALSE)
        [] n.tag = "duo" ->
             here \cup UNION {resident(DuoChildren(n)[i], Append(path, i), FALSE)
                                : i \in ChildIdx}
        [] n.tag = "full" ->
             here \cup UNION {resident(n.Children[i], Append(path, i), FALSE)
                                : i \in ChildIdx}
        [] OTHER -> {}

\* the timestamps do not grow from a node to its descendants
RECURSIVE agesDescend(_, _)
agesDescend(n, above) ==
  CASE n.tag = "short" -> n.t <= above /\ agesDescend(n.Val, n.t)
    [] n.tag = "duo" -> /\ n.t <= above
                        /\ agesDescend(n.child1, n.t)
                        /\ agesDescend(n.child2, n.t)
    [] n.tag = "full" -> /\ n.t <= above
                         /\ \A i \in ChildIdx : agesDescend(n.Children[i], n.t)
    [] OTHER -> TRUE

oldGone(before, after, gen) ==
  /\ \A b \in resident(before, <<>>, TRUE) :
       (b.t < gen /\ ~b.emb) => slotAt(after, b.p).tag \in {"hash", "nil"}
  /\ \A a \in resident(after, <<>>, TRUE) : ~a.emb => a.t >= gen

youngKept(before, after, gen) ==
  \A b \in resident(before, <<>>, TRUE) :
    b.t >= gen => slotAt(after, b.p).tag \in {"short", "duo", "full"}

\* C32: after UnloadOlderThan(g) every subtree whose root had t < g has been
\* replaced by a Hash placeholder and every node with t >= g is still
\* resident, so no resident node that is not embedded has t < g.
UnloadKeepsYoungDropsOld ==
  last.op = "unload" =>
    /\ oldGone(last.before, t, last.gen)
    /\ youngKept(last.before, t, last.gen)

\* what does hold: the old nodes are gone
UnloadDropsOld ==
  last.op = "unload" => oldGone(last.before, t, last.gen)

\* where no node is younger than its parent the young nodes are kept
UnloadKeepsYoungBelowYoung ==
  (last.op = "unload" /\ agesDescend(last.before, MaxGen))
    => youngKept(last.before, t, last.gen)

\* an unloading that replaced some node and kept another, of a trie whose
\* timestamps descend
UnloadedInOrder ==
  /\ last.op = "unload"
  /\ agesDescend(last.before, MaxGen)
  /\ t.tag \in {"duo", "full"}
  /\ HasHash(t)
  /\ \E b \in resident(last.before, <<>>, TRUE) : b.p # <<>> /\ b.t >= last.gen

\* what the side-table holds for an index; an index never written reads as
\* the empty marker
tableAt(tbl, idx) == IF idx \in DOMAIN tbl THEN tbl[idx] ELSE emptyHash

Unknown == [tag |-> "unknown"]

RECURSIVE coverHash(_, _, _)
\* the hash of the node of the trie below n that holds the hex prefix p of
\* HashLevel nibbles: the branch at that level, the Short whose key crosses or
\* reaches the level, the Hash that stands there; the empty marker where the
\* trie has nothing below p, Unknown where it is unloaded above the level
coverHash(n, p, pos) ==
  CASE n.tag = "nil" -> emptyHash
    [] n.tag = "hash" -> IF pos = HashLevel THEN n.d ELSE Unknown
    [] n.tag = "short" ->
         LET nKey == compactToHex(n.Key)
             len == compactLen(n.Key)
             m == Min2(len, HashLevel - pos)
         IN  IF SubSeq(nKey, 1, m) # SubSeq(p, pos + 1, pos + m) THEN emptyHash
             ELSE IF len + pos >= HashLevel THEN n.hash
             ELSE coverHash(n.Val, p, pos + len)
    [] n.tag \in {"duo", "full"} ->
         IF pos = HashLevel THEN n.hash
         ELSE coverHash((IF n.tag = "duo" THEN DuoChildren(n) ELSE n.Children)[p[pos + 1]],
                        p, pos + 1)
    [] OTHER -> emptyHash

\* after a successful TrieRoot the side-table agrees with the account trie on
\* every prefix of the side-table level
SideTableMatchesTrie ==
  (last.op = "TrieRoot" /\ ~last.err) =>
    \A p \in NibbleSeqs(HashLevel) :
      coverHash(t, p, 0) # Unknown
        => tableAt(hashes, calcIndex(p, HashLevel)) = coverHash(t, p, 0)

\* rebuildFromHashes (resolver.go), for a table of `levels` nibbles per index:
\* the cells of a level are filled from the level below, and after the cell 15
\* of a level the level is reduced to nothing, to its single child or to a
\* fullNode and handed to the level above.
plainShort(hexkey, val) ==
  [tag |-> "short", Key |-> hexToCompact(hexkey), Val |-> val,
   dirty |-> FALSE, hash |-> NoHash, t |-> 0]

plainFull(children) ==
  [tag |-> "full", Children |-> children, dirty |-> FALSE, hash |-> NoHash, t |-> 0]

cellOf(i, level, levels) == (i \div Pow(16, levels - 1 - level)) % 16

RECURSIVE fillLevel(_, _, _, _, _, _, _)
fillLevel(st, i, level, hash, short, fullNodeHash, levels) ==
  IF level < 0 THEN st
  ELSE
    LET v == cellOf(i, level, levels)
        st1 == IF hash.tag = "hash" /\ hash.d = emptyHash
               THEN [st EXCEPT !.vertical[level][v] = Nil]
               ELSE [st EXCEPT !.vertical[level][v] = hash,
                               !.lastFill[level] = hash,
                               !.lastFillIdx[level] = v,
                               !.lastFull[level] = fullNodeHash,
                               !.shorts[level] = short,
                               !.fillCount[level] = @ + 1]
        count == st1.fillCount[level]
        idx == st1.lastFillIdx[level]
        up == IF count = 0
              THEN [hash |-> hashNode(emptyHash), short |-> Nil, full |-> FALSE]
              ELSE IF count = 1
              THEN IF st1.lastFull[level]
                   THEN [hash |-> plainShort(<<idx>>, st1.lastFill[level]),
                         short |-> plainShort(<<idx>>, st1.lastFill[level]),
                         full |-> FALSE]
                   ELSE IF st1.shorts[level] # Nil
                   THEN LET s == plainShort(<<idx>> \o compactToHex(st1.shorts[level].Key),
                                            st1.shorts[level].Val)
                        IN  [hash |-> s, short |-> s, full |-> FALSE]
                   ELSE [hash |-> st1.lastFill[level], short |-> Nil, full |-> FALSE]
              ELSE [hash |-> plainFull(st1.vertical[level]), short |-> Nil, full |-> TRUE]
        st2 == [st1 EXCEPT !.lastFill[level] = Nil,
                           !.lastFull[level] = FALSE,
                           !.fillCount[level] = 0,
                           !.vertical[level] = NoChildren,
                           !.shorts[level] = IF count >= 2 THEN Nil ELSE @,
                           !.root = IF level = 0 THEN up.hash ELSE @]
    IN  IF v # 15 THEN st1
        ELSE fillLevel(st2, i, level - 1, up.hash, up.short, up.full, levels)

RECURSIVE fillFrom(_, _, _, _)
fillFrom(st, i, tbl, levels) ==
  IF i >= Pow(16, levels) THEN st
  ELSE fillFrom(fillLevel(st, i, levels - 1, hashNode(tableAt(tbl, i)), Nil, FALSE, levels),
                i + 1, tbl, levels)

rebuildFromHashes(tbl, levels) ==
  LET L == 0 .. (levels - 1)
      st == fillFrom([vertical |-> [l \in L |-> NoChildren],
                      fillCount |-> [l \in L |-> 0],
                      lastFill |-> [l \in L |-> Nil],
                      lastFillIdx |-> [l \in L |-> 0],
                      lastFull |-> [l \in L |-> FALSE],
                      shorts |-> [l \in L |-> Nil],
                      root |-> Nil],
                     0, tbl, levels)
  IN  [root |-> st.root,
       roothash |-> IF st.root = Nil THEN ZeroHash ELSE hashRoot(st.root).hash]

\* The later trie.go writes the table at level 6 of the trie; resolver.go
\* belongs to the earlier trie.go, which writes it at level 5, and reads five
\* nibbles per index.  The rebuild reads as many levels as saveHashes writes.
RebuildLevels == HashLevel

RECURSIVE nibblesOf(_)
nibblesOf(key) ==
  IF key = <<>> THEN <<>>
  ELSE <<Head(key) \div 16, Head(key) % 16>> \o nibblesOf(Tail(key))

emittedPrefix(i) == SubSeq(nibblesOf(last.startkeys[i]), 1, last.fixedbits[i] \div 4)

resolvePrefix(c) == SubSeq(c.resolveKey, 1, c.resolvePos)

\* C34: whatever continuations were added to a resolver, no prefix that
\* PrepareResolveParams emits is a prefix of another one it emits, and the
\* resolve prefix of every added continuation starts with an emitted prefix
PreparedWalksDisjointAndCover ==
  last.op = "prepare" =>
    /\ \A i, j \in DOMAIN last.startkeys :
         i # j => ~HasPrefix(emittedPrefix(i), emittedPrefix(j))
    /\ \A k \in DOMAIN last.added :
         \E i \in DOMAIN last.startkeys :
           HasPrefix(resolvePrefix(last.added[k]), emittedPrefix(i))

\* three continuations, two walks: a request deeper in the trie was added
\* before the request whose walk serves it
PreparedWalksWitness ==
  /\ last.op = "prepare"
  /\ Len(last.added) = MaxAdded
  /\ Len(last.startkeys) = 2
  /\ \E k, m \in DOMAIN last.added :
       /\ k < m
       /\ last.added[k].resolvePos > last.added[m].resolvePos
       /\ HasPrefix(resolvePrefix(last.added[k]), resolvePrefix(last.added[m]))
       /\ \E i \in DOMAIN last.startkeys :
            emittedPrefix(i) = resolvePrefix(last.added[m])

\* ----------------------------------------------------------------- C35
RECURSIVE slotsBelow(_, _)
\* the child slots of the subtree n at hex path `path`: the node each slot
\* holds and the hex path of that node
slotsBelow(n, path) ==
  CASE n.tag = "short" ->
         LET cp == path \o compactToHex(n.Key)
         IN  {[node |-> n.Val, path |-> cp]} \cup slotsBelow(n.Val, cp)
    [] n.tag \in {"duo", "full"} ->
         UNION {{[node |-> childrenOf(n)[i], path |-> Append(path, i)]}
                  \cup slotsBelow(childrenOf(n)[i], Append(path, i)) : i \in ChildIdx}
    [] OTHER -> {}

\* the child slots of the subtrees the last resolver pass attached that hold a
\* node (a Short, Duo, Full or Hash)
attachedSlots ==
  IF last.op # "resolve" THEN {}
  ELSE UNION {IF last.after[i].tc.c.resolved = Nil THEN {}
              ELSE {s \in slotsBelow(last.after[i].tc.c.resolved,
                                     resolvePrefix(last.after[i].tc.c)) :
                      s.node.tag \in {"short", "duo", "full", "hash"}}
                : i \in last.starts}

requestedKeys ==
  IF last.op # "resolve" THEN {}
  ELSE {last.before[j].tc.c.resolveKey : j \in DOMAIN last.before}

onRequestedPath(path) == \E R \in requestedKeys : HasPrefix(R, path)

unresolvedSlot(s) == s.node.tag = "hash" \/ embedded(s.node, FALSE)
resolvedSlot(s) == s.node.tag \in {"short", "duo", "full"}

\* C35 as stated: in an attached subtree a child off the path of every
\* requested key is a Hash placeholder (or embedded), a child on the path of
\* a requested key is a resolved node
AttachedOnlyAlongPaths ==
  \A s \in attachedSlots :
    IF onRequestedPath(s.path) THEN resolvedSlot(s) ELSE unresolvedSlot(s)

\* C35, amended: in an attached subtree a child whose parent is off the path
\* of every requested key is a Hash placeholder (or embedded), and a child
\* whose parent is on the path of a requested key, the child on the path and
\* its siblings alike, is a resolved node
AttachedOneLevelAroundPaths ==
  \A s \in attachedSlots :
    IF onRequestedPath(SubSeq(s.path, 1, Len(s.path) - 1))
    THEN resolvedSlot(s)
    ELSE unresolvedSlot(s)

\* a pass attached a subtree that holds a resolved sibling of the path and,
\* below that sibling, a Hash placeholder
AttachedOneLevelWitness ==
  /\ last.op = "resolve"
  /\ ~last.err
  /\ \E s, u \in attachedSlots :
       /\ resolvedSlot(s)
       /\ ~embedded(s.node, FALSE)
       /\ ~onRequestedPath(s.path)
       /\ u.node.tag = "hash"
       /\ HasPrefix(u.path, s.path)

\* ----------------------------------------------------------------- C36
RECURSIVE oneAtATime(_, _, _)
\* the updates applied one after the other, each run to its end before the
\* next starts
oneAtATime(root, updates, block) ==
  IF updates = <<>> THEN root
  ELSE oneAtATime(runToEnd(UpdateAction(Head(updates).key, Head(updates).value),
                           root, <<>>, TRUE, block, 0, 0).root,
                  Tail(updates), block)

\* the first pass of the loop over the trie the loop started from
firstPass ==
  runContinuations(continuationsOf(last.updates), 1, [x \in {AT} |-> last.before],
                   <<>>, <<>>, blockNr)

heldWithAccount ==
  {a \in Address : /\ HashAddress(a) \in DOMAIN storageTries
                   /\ accountIn(t, HashAddress(a)) # NilAccount}

\* C37: after a TrieRoot that succeeds, the record of every account whose
\* storage trie is held in memory carries the hash of that storage trie as
\* its storage root, also when the block wrote storage of the address and
\* gave no account record for it
HeldStorageRootsMatch ==
  (last.op = "TrieRoot" /\ ~last.err)
    => \A a \in heldWithAccount :
         accountIn(t, HashAddress(a)).Root
           = hashRoot(storageTries[HashAddress(a)]).hash

\* ----------------------------------------------------------------- C38
\* the keys and values of the storage of an address as the tries have them:
\* the storage trie held in memory, or else the trie below the storage root of
\* the account record; nothing for an address with no account
storageInTries(a) ==
  LET acc == accountAt(Enc(t), HashAddress(a))
  IN  IF acc = NilAccount THEN {}
      ELSE IF HashAddress(a) \in DOMAIN storageTries
      THEN Content(storageTries[HashAddress(a)])
      ELSE IF acc.Root = emptyRoot THEN {}
      ELSE contentOf(acc.Root, <<>>)

\* the same as the storage table has them
storageInTable(a) ==
  {<<keybytesToHex(k), storageRows(dbST, a)[k]>> : k \in DOMAIN storageRows(dbST, a)}

\* the accounts of the table and of the account trie, decoded: the table holds
\* the short encoding, the trie the four-field list
accountsInTable == {<<keybytesToHex(h), encodingToAccount(dbAT[h])>> : h \in DOMAIN dbAT}
accountsInTrie == {<<p[1], encodingToAccount(p[2])>> : p \in Content(t)}

\* C38: after a block that went through both writers and TrieRoot is
\* committed, the account trie holds the keys and values of the accounts
\* table and the storage trie of every address those of its rows in the
\* storage table
TriesEqualTables ==
  last.op = "Commit"
    => /\ accountsInTrie = accountsInTable
       /\ \A a \in Address \cup Bystanders : storageInTries(a) = storageInTable(a)

\* the account half of it
AccountTrieEqualsTable == last.op = "Commit" => accountsInTrie = accountsInTable

\* ----------------------------------------------------------------- C40
\* C40: a PruneTries that finds more nodes than the cap returns, and the
\* cutoff its search stops at was reached from oldestGeneration moving upward
\* only, also when the block number was lowered below oldestGeneration
PruneSearchEndsUpward ==
  (last.op = "PruneTries" /\ last.before > MaxTrieCacheGen)
    => last.returned /\ oldestGeneration >= last.from

\* the same while no node is counted in a generation older than
\* oldestGeneration
PruneSearchEndsUpwardUnlessBelow ==
  (last.op = "PruneTries" /\ last.before > MaxTrieCacheGen /\ ~last.below)
    => last.returned /\ oldestGeneration >= last.from

\* the search went past the last generation number and stopped at a
\* generation older than the one it started at
PruneSearchWrapped ==
  /\ last.op = "PruneTries"
  /\ last.returned
  /\ last.below
  /\ oldestGeneration < last.from

\* C39: after any sequence of inserts, resolutions and PruneTries calls
\* nodeCount equals the number of Short, Duo and Full nodes resident in the
\* tries, and generationCounts[g] the number of those whose t is g.
CountsEqualResident == countsExact(t, storageTries, gens)

\* what does hold: an update or a PruneTries that starts with exact counts,
\* none of them in a generation older than oldestGeneration, leaves the
\* counts exact
CountsStayExactAboveOldest ==
  (last.op \in {"update", "PruneTries"} /\ last.exact) => CountsEqualResident

\* a PruneTries that unloaded a node whose generation it did not remove
CountedNodeUnloaded ==
  /\ last.op = "PruneTries"
  /\ \E g \in DOMAIN generationCounts :
       generationCounts[g] > residentIn(t, storageTries, g)

====
